---- MODULE Spec2Model ----
(***************************************************************************)
(* The F1 analytics pipeline: scripts/extract_data.py (F1DataExtractor),   *)
(* scripts/transform_data.py (F1DataTransformer), scripts/load_data.py     *)
(* (F1DataLoader) and scripts/run_pipeline.py (run_full_pipeline).         *)
(*                                                                         *)
(* A table (a pandas DataFrame, or the CSV file that holds one) is a       *)
(* record [cols, rows]: the set of column names and the sequence of rows,  *)
(* each row a function from the column names to cells.  A cell is a        *)
(* number (a fixed-point decimal with four fractional digits), a string,   *)
(* or the missing marker NaN (Python's None is written to CSV as the empty *)
(* field and read back as NaN).                                            *)
(***************************************************************************)
EXTENDS Integers, Sequences, FiniteSets, TLC

VARIABLES
    pc,         \* the step the running script executes next
    raw,        \* data/raw/: file name -> file
    processed,  \* data/processed/: file name -> file
    db,         \* the database: table name -> table
    api,        \* the upstream snapshot the API serves
    failing,    \* the requests that end in a transport failure
    args,       \* start_year and end_year of the run
    ex,         \* the locals of the running extract_* method
    requested,  \* the requests issued in this run
    log,        \* the requests of this run in the order they were sent
    origin,     \* history: staged file -> the (year, round) each row came from
    run,        \* 1 in the first run of the pipeline, 2 in the second
    snap        \* data/raw/, data/processed/ and the database after the first run

vars ==
    <<pc, raw, processed, db, api, failing, args, ex, requested, log, origin, run, snap>>

\* the variables of the extractor, and those of a second run
extractVars == <<api, failing, args, ex, requested, log, origin>>
runVars == <<run, snap>>

\* the transformer run on its own, as transform_data.py's main() does
TransformerOnly ==
    /\ db = <<>>
    /\ api = <<>>
    /\ failing = {}
    /\ args = <<>>
    /\ ex = <<>>
    /\ requested = {}
    /\ log = <<>>
    /\ origin = <<>>
    /\ run = 1
    /\ snap = <<>>

-----------------------------------------------------------------------------
(* Cells *)

\* fractional digits kept by the fixed-point decimals of the model
FracUnit == 10 * 10 * 10 * 10

Dec(n, fr) == [k |-> "num", n |-> n, fr |-> fr, s |-> ""]
Num(n) == Dec(n, 0)
Str(s) == [k |-> "str", n |-> 0, fr |-> 0, s |-> s]
NaN == [k |-> "nan", n |-> 0, fr |-> 0, s |-> ""]

IsNum(c) == c.k = "num"
isna(c) == c.k = "nan"

\* Series.fillna(d)
fillna(c, d) == IF isna(c) THEN d ELSE c

\* pd.to_numeric(errors="coerce"): what is no number becomes NaN
to_numeric(c) == IF IsNum(c) THEN c ELSE NaN

\* astype(int) on a number truncates the fraction; on anything else it raises
CanInt(c) == IsNum(c)
astype_int(c) == Num(c.n)

\* c * 1000 on a numeric cell (NaN stays NaN)
times1000(c) ==
    IF ~IsNum(c) THEN NaN
    ELSE Dec(c.n * 1000 + (c.fr * 1000) \div FracUnit, (c.fr * 1000) % FracUnit)

-----------------------------------------------------------------------------
(* Tables and CSV files *)

EmptyDF == [cols |-> {}, rows |-> <<>>]

NoFile == [exists |-> FALSE, cols |-> {}, rows |-> <<>>]

\* DataFrame.to_csv(index=False): None and the empty string are both written
\* as the empty field, which reads back as NaN
CsvCell(c) == IF c = Str("") THEN NaN ELSE c

to_csv(df) ==
    [exists |-> TRUE, cols |-> df.cols,
     rows |-> [i \in 1..Len(df.rows) |->
                 [c \in df.cols |-> CsvCell(df.rows[i][c])]]]

\* pd.read_csv: FileNotFoundError on a missing file, EmptyDataError on a file
\* without a header line (what to_csv writes for a DataFrame without columns)
read_csv(f) ==
    IF ~f.exists \/ f.cols = {}
    THEN [ok |-> FALSE, df |-> EmptyDF]
    ELSE [ok |-> TRUE, df |-> [cols |-> f.cols, rows |-> f.rows]]

\* os.path.getsize(path) < 10: a file holding no header line
getsize_lt_10(f) == f.cols = {}

HasCol(df, c) == c \in df.cols

RowIndex(df) == 1..Len(df.rows)

\* df[c]: a column (a pandas Series) is the sequence of its cells
Col(df, c) == [i \in RowIndex(df) |-> df.rows[i][c]]

\* a scalar broadcast over the rows of df, as in df[c] = 0
Broadcast(df, v) == [i \in RowIndex(df) |-> v]

\* Range1 counting from 0
RangeFromZero(df) == [i \in RowIndex(df) |-> Num(i - 1)]

\* range(1, len(df) + 1)
Range1(df) == [i \in RowIndex(df) |-> Num(i)]

\* df[c] = ser
WithCol(df, c, ser) ==
    [cols |-> df.cols \cup {c},
     rows |-> [i \in RowIndex(df) |->
                 [k \in df.cols \cup {c} |-> IF k = c THEN ser[i] ELSE df.rows[i][k]]]]

\* df = df[cs]
Select(df, cs) ==
    [cols |-> cs,
     rows |-> [i \in RowIndex(df) |-> [k \in cs |-> df.rows[i][k]]]]

\* the Series methods, cell by cell
FillNa(ser, d) == [i \in DOMAIN ser |-> fillna(ser[i], d)]
ToNumeric(ser) == [i \in DOMAIN ser |-> to_numeric(ser[i])]
AsInt(ser) == [i \in DOMAIN ser |-> astype_int(ser[i])]
Times1000(ser) == [i \in DOMAIN ser |-> times1000(ser[i])]

\* Series.astype(int) does not raise
CanAsInt(ser) == \A i \in DOMAIN ser : CanInt(ser[i])

\* Series.isna().all()
IsNaAll(ser) == \A i \in DOMAIN ser : isna(ser[i])

\* DataFrame.empty
IsEmpty(df) == df.cols = {} \/ df.rows = <<>>

\* dict(zip(keys, vals)): for a repeated key the last pair wins
DictZip(keys, vals) ==
    [key \in {keys[i] : i \in DOMAIN keys} |->
        LET last == CHOOSE i \in DOMAIN keys :
                        /\ keys[i] = key
                        /\ \A j \in DOMAIN keys : j > i => keys[j] # key
        IN vals[last]]

\* Series.map(dict): a value that is no key of the dict becomes NaN
MapDict(ser, dict) ==
    [i \in DOMAIN ser |-> IF ser[i] \in DOMAIN dict THEN dict[ser[i]] ELSE NaN]

-----------------------------------------------------------------------------
(* F1DataTransformer: what one transform_* call returns.  raised: an       *)
(* exception left the method; out: the processed files it wrote before.    *)

Wrote(name, df) == [raised |-> FALSE, out |-> (name :> to_csv(df))]
WroteNothing == [raised |-> FALSE, out |-> <<>>]
Raised == [raised |-> TRUE, out |-> <<>>]

\* ResolveDriver with the lookup built over 0-based positions instead of the
\* staged driver_id column
ResolveDriverZeroBased(df, rw) ==
    LET r == read_csv(rw["drivers"]) IN
    IF ~r.ok \/ ~HasCol(r.df, "driver_ref") \/ ~HasCol(df, "driver_ref")
    THEN WithCol(df, "driver_id", Broadcast(df, Num(0)))
    ELSE LET ids == [i \in RowIndex(r.df) |-> Num(i - 1)]
             driver_map == DictZip(Col(r.df, "driver_ref"), ids)
         IN WithCol(df, "driver_id", MapDict(Col(df, "driver_ref"), driver_map))

\* the try/except block that resolves driver_ref to driver_id
\* (the same block in transform_results, transform_qualifying,
\* transform_pit_stops and transform_standings)
ResolveDriver(df, rw) ==
    LET r == read_csv(rw["drivers"]) IN
    IF ~r.ok \/ ~HasCol(r.df, "driver_ref") \/ ~HasCol(df, "driver_ref")
    THEN WithCol(df, "driver_id", Broadcast(df, Num(0)))
    ELSE LET drivers_df == IF HasCol(r.df, "driver_id") THEN r.df
                           ELSE WithCol(r.df, "driver_id", Range1(r.df))
             driver_map == DictZip(Col(drivers_df, "driver_ref"),
                                   Col(drivers_df, "driver_id"))
         IN WithCol(df, "driver_id", MapDict(Col(df, "driver_ref"), driver_map))

\* the try/except block that resolves constructor_ref to constructor_id
\* (transform_results, transform_qualifying, transform_standings)
ResolveConstructor(df, rw) ==
    LET r == read_csv(rw["constructors"]) IN
    IF \/ ~r.ok
       \/ ~HasCol(r.df, "constructor_ref")
       \/ ~HasCol(r.df, "constructor_id")
       \/ ~HasCol(df, "constructor_ref")
    THEN WithCol(df, "constructor_id", Broadcast(df, Num(0)))
    ELSE LET constructor_map == DictZip(Col(r.df, "constructor_ref"),
                                        Col(r.df, "constructor_id"))
         IN WithCol(df, "constructor_id",
                    MapDict(Col(df, "constructor_ref"), constructor_map))

\* columns of circuits_clean.csv that the model keeps
CircuitCols == {"circuit_id", "circuit_ref", "altitude"}

transform_circuits(rw) ==
    LET f == rw["circuits"] IN
    IF ~f.exists \/ getsize_lt_10(f) THEN Wrote("circuits_clean", EmptyDF)
    ELSE LET d0 == read_csv(f).df
             d1 == WithCol(d0, "circuit_id", Range1(d0))
         IN IF ~CircuitCols \subseteq d1.cols THEN Raised
            ELSE Wrote("circuits_clean",
                       Select(WithCol(d1, "altitude", FillNa(Col(d1, "altitude"), Num(0))),
                              CircuitCols))

\* columns of drivers_clean.csv that the model keeps
DriverCols == {"driver_id", "driver_ref", "driver_number"}

transform_drivers(rw) ==
    LET r == read_csv(rw["drivers"]) IN
    IF ~r.ok THEN Raised
    ELSE LET d1 == IF HasCol(r.df, "driver_id") THEN r.df
                   ELSE WithCol(r.df, "driver_id", Range1(r.df))
         IN IF /\ HasCol(d1, "driver_number")
               /\ ~CanAsInt(FillNa(Col(d1, "driver_number"), Num(0)))
            THEN Raised
            ELSE LET d2 == IF HasCol(d1, "driver_number")
                           THEN WithCol(d1, "driver_number",
                                        AsInt(FillNa(Col(d1, "driver_number"), Num(0))))
                           ELSE WithCol(d1, "driver_number", Broadcast(d1, Num(0)))
                     d3 == IF HasCol(d2, "driver_ref") THEN d2
                           ELSE WithCol(d2, "driver_ref", Broadcast(d2, NaN))
                 IN Wrote("drivers_clean", Select(d3, DriverCols))

-----------------------------------------------------------------------------
(* Decimal formatting and parsing, as Python's f-strings and int() do it   *)
(* for integers >= 0: a string of digits is a sequence over 0..9.          *)

RECURSIVE IntToStr(_)
IntToStr(n) == IF n < 10 THEN <<n>> ELSE IntToStr(n \div 10) \o <<n % 10>>

\* str.zfill(w), also the format spec :0wd
RECURSIVE zfill(_, _)
zfill(ds, w) == IF Len(ds) >= w THEN ds ELSE zfill(<<0>> \o ds, w)

RECURSIVE StrToInt(_)
StrToInt(ds) ==
    IF ds = <<>> THEN 0
    ELSE 10 * StrToInt(SubSeq(ds, 1, Len(ds) - 1)) + ds[Len(ds)]

\* MakeRaceId without the zero padding of the round
MakeRaceIdUnpadded(year, round_num) == StrToInt(IntToStr(year) \o IntToStr(round_num))

\* int(f"{year}{round_num:02d}")
MakeRaceId(year, round_num) == StrToInt(IntToStr(year) \o zfill(IntToStr(round_num), 2))

-----------------------------------------------------------------------------

\* the try/except block of transform_races that resolves circuit_ref
ResolveCircuit(df, rw) ==
    LET r == read_csv(rw["circuits"]) IN
    IF ~r.ok \/ ~HasCol(r.df, "circuit_ref")
    THEN WithCol(df, "circuit_id", Broadcast(df, Num(0)))
    ELSE LET circuits_df == IF HasCol(r.df, "circuit_id") THEN r.df
                            ELSE WithCol(r.df, "circuit_id", Range1(r.df))
             circuit_map == DictZip(Col(circuits_df, "circuit_ref"),
                                    Col(circuits_df, "circuit_id"))
         IN WithCol(df, "circuit_id",
                    AsInt(FillNa(MapDict(Col(df, "circuit_ref"), circuit_map), Num(0))))

\* astype(str) gives digits only: a column of integers >= 0 (a column with a
\* NaN or a fraction is a float column, whose text int() rejects)
IsDigits(ser) == \A i \in DOMAIN ser : IsNum(ser[i]) /\ ser[i].fr = 0 /\ ser[i].n >= 0

\* the fallback of transform_races without str.zfill(2)
RaceIdFallbackUnpadded(df) ==
    [i \in RowIndex(df) |->
        Num(StrToInt(IntToStr(df.rows[i]["year"].n) \o IntToStr(df.rows[i]["round"].n)))]

\* (df["year"].astype(str) + df["round"].astype(str).str.zfill(2)).astype(int)
RaceIdFallback(df) ==
    [i \in RowIndex(df) |->
        Num(StrToInt(IntToStr(df.rows[i]["year"].n)
                     \o zfill(IntToStr(df.rows[i]["round"].n), 2)))]

transform_races(rw) ==
    LET r == read_csv(rw["races"]) IN
    IF ~r.ok THEN Raised
    ELSE LET d1 == IF HasCol(r.df, "race_time")
                   THEN WithCol(r.df, "race_time",
                                FillNa(Col(r.df, "race_time"), Str("00:00:00")))
                   ELSE WithCol(r.df, "race_time", Broadcast(r.df, Str("00:00:00")))
             d2 == IF HasCol(d1, "circuit_ref") THEN ResolveCircuit(d1, rw) ELSE d1
         IN IF HasCol(d2, "race_id")
            THEN IF CanAsInt(Col(d2, "race_id"))
                 THEN Wrote("races_clean", WithCol(d2, "race_id", AsInt(Col(d2, "race_id"))))
                 ELSE Raised
            ELSE IF /\ HasCol(d2, "year") /\ HasCol(d2, "round")
                    /\ IsDigits(Col(d2, "year")) /\ IsDigits(Col(d2, "round"))
                 THEN Wrote("races_clean", WithCol(d2, "race_id", RaceIdFallback(d2)))
                 ELSE Raised

\* numeric_cols of transform_results
numeric_cols == {"points", "laps", "grid", "number", "fastest_lap", "fastest_lap_rank"}

\* status_map of transform_results
status_map ==
    [s \in {"Finished", "+1 Lap", "+2 Laps", "+3 Laps", "Retired",
            "Disqualified", "Accident", "Collision", "Engine"} |->
        CASE s = "Finished" -> 1
          [] s = "+1 Lap" -> 11
          [] s = "+2 Laps" -> 12
          [] s = "+3 Laps" -> 13
          [] s = "Retired" -> 14
          [] s = "Disqualified" -> 2
          [] s = "Accident" -> 3
          [] s = "Collision" -> 4
          [] s = "Engine" -> 5]

\* the default of df["status"].map(status_map).fillna(14)
StatusDefault == 14

\* StatusId with an unlisted status taken as Finished
StatusIdDefaultFinished(c) ==
    fillna(IF c.k = "str" /\ c.s \in DOMAIN status_map THEN Num(status_map[c.s]) ELSE NaN,
           Num(1))

\* df["status"].map(status_map).fillna(14), for one cell
StatusId(c) ==
    fillna(IF c.k = "str" /\ c.s \in DOMAIN status_map THEN Num(status_map[c.s]) ELSE NaN,
           Num(StatusDefault))

\* df["status_id"] when the staged table has no status column
StatusAbsent == 1

\* the status block of transform_results
WithStatusId(df) ==
    IF HasCol(df, "status")
    THEN WithCol(df, "status_id", [i \in RowIndex(df) |-> StatusId(df.rows[i]["status"])])
    ELSE WithCol(df, "status_id", Broadcast(df, Num(StatusAbsent)))

\* the default of position_order
PositionDefault == 999

\* PositionOrderCell with 0 as the default
PositionOrderCellZero(c) == astype_int(fillna(to_numeric(c), Num(0)))

\* pd.to_numeric(df["position_order"], errors="coerce").fillna(999).astype(int)
PositionOrderCell(c) == astype_int(fillna(to_numeric(c), Num(PositionDefault)))

\* the position_order block of transform_results (position was made numeric
\* before); it is applied to a table that has a position or a position_order
\* column
WithPositionOrder(df) ==
    LET d1 == IF ~HasCol(df, "position_order")
              THEN WithCol(df, "position_order",
                           FillNa(Col(df, "position"), Num(PositionDefault)))
              ELSE df
    IN WithCol(d1, "position_order",
               [i \in RowIndex(d1) |-> PositionOrderCell(d1.rows[i]["position_order"])])

\* the milliseconds block of transform_results
WithResultMillis(df) ==
    IF HasCol(df, "milliseconds")
    THEN WithCol(df, "milliseconds",
                 AsInt(FillNa(ToNumeric(Col(df, "milliseconds")), Num(0))))
    ELSE WithCol(df, "milliseconds", Broadcast(df, Num(0)))

\* the loop over numeric_cols: fillna(0).astype(int) on those that are there
WithNumericCols(df) ==
    [cols |-> df.cols,
     rows |-> [i \in RowIndex(df) |->
                 [k \in df.cols |->
                    IF k \in numeric_cols
                    THEN astype_int(fillna(df.rows[i][k], Num(0)))
                    ELSE df.rows[i][k]]]]

transform_results(rw) ==
    LET f == rw["results"] IN
    IF ~f.exists \/ getsize_lt_10(f) THEN Wrote("results_clean", EmptyDF)
    ELSE LET d1 == ResolveConstructor(ResolveDriver(read_csv(f).df, rw), rw)
             d2 == IF HasCol(d1, "position")
                   THEN WithCol(d1, "position", ToNumeric(Col(d1, "position")))
                   ELSE d1
         IN IF \E k \in numeric_cols \cap d2.cols : ~CanAsInt(FillNa(Col(d2, k), Num(0)))
            THEN Raised
            ELSE LET d3 == WithStatusId(WithResultMillis(WithNumericCols(d2))) IN
                 IF ~HasCol(d3, "position_order") /\ ~HasCol(d3, "position")
                 THEN Raised
                 ELSE Wrote("results_clean", WithPositionOrder(d3))

\* the q1/q2/q3 loop of transform_qualifying
WithQualifyingTimes(df) ==
    LET qs == {"q1", "q2", "q3"} IN
    [cols |-> df.cols \cup qs,
     rows |-> [i \in RowIndex(df) |->
                 [k \in df.cols \cup qs |->
                    IF k \in qs
                    THEN IF k \in df.cols THEN fillna(df.rows[i][k], Str("")) ELSE Str("")
                    ELSE df.rows[i][k]]]]

\* the position/number loop of transform_qualifying
WithQualifyingNumbers(df) ==
    [cols |-> df.cols,
     rows |-> [i \in RowIndex(df) |->
                 [k \in df.cols |->
                    IF k \in {"position", "number"}
                    THEN astype_int(fillna(to_numeric(df.rows[i][k]), Num(0)))
                    ELSE df.rows[i][k]]]]

transform_qualifying(rw) ==
    LET r == read_csv(rw["qualifying"]) IN
    IF ~r.ok THEN Raised
    ELSE Wrote("qualifying_clean",
               WithQualifyingNumbers(WithQualifyingTimes(
                   ResolveConstructor(ResolveDriver(r.df, rw), rw))))

\* the milliseconds block of transform_pit_stops: the column is derived from
\* duration when it is absent or holds no value at all
WithPitMillis(df) ==
    LET d1 == IF ~HasCol(df, "milliseconds") \/ IsNaAll(Col(df, "milliseconds"))
              THEN IF HasCol(df, "duration")
                   THEN WithCol(df, "milliseconds",
                                Times1000(ToNumeric(Col(df, "duration"))))
                   ELSE WithCol(df, "milliseconds", Broadcast(df, Num(0)))
              ELSE df
    IN WithCol(d1, "milliseconds",
               AsInt(FillNa(ToNumeric(Col(d1, "milliseconds")), Num(0))))

transform_pit_stops(rw) ==
    LET f == rw["pit_stops"] IN
    IF ~f.exists \/ getsize_lt_10(f) THEN Wrote("pit_stops_clean", EmptyDF)
    ELSE LET d1 == ResolveDriver(read_csv(f).df, rw)
             d2 == IF HasCol(d1, "time_of_day")
                   THEN WithCol(d1, "time_of_day",
                                FillNa(Col(d1, "time_of_day"), Str("00:00:00")))
                   ELSE WithCol(d1, "time_of_day", Broadcast(d1, Str("00:00:00")))
         IN Wrote("pit_stops_clean", WithPitMillis(d2))

\* one half of transform_standings: kind is "constructor" or "driver"
StandingsHalf(rw, kind) ==
    LET f == rw[kind \o "_standings"]
        df == IF ~f.exists \/ getsize_lt_10(f) THEN EmptyDF ELSE read_csv(f).df
    IN IF IsEmpty(df) THEN WroteNothing
       ELSE LET d1 == IF kind = "constructor" THEN ResolveConstructor(df, rw)
                      ELSE ResolveDriver(df, rw)
            IN IF ~HasCol(d1, "points") \/ ~HasCol(d1, "wins") THEN Raised
               ELSE LET d2 == WithCol(d1, "points", FillNa(Col(d1, "points"), Num(0)))
                    IN Wrote(kind \o "_standings_clean",
                             WithCol(d2, "wins", FillNa(Col(d2, "wins"), Num(0))))

\* the constructor half runs and writes first; the driver half follows unless
\* the constructor half raised
transform_standings(rw) ==
    LET c == StandingsHalf(rw, "constructor") IN
    IF c.raised THEN c
    ELSE LET d == StandingsHalf(rw, "driver") IN
         [raised |-> d.raised, out |-> c.out @@ d.out]

-----------------------------------------------------------------------------
(* transform_all: the seven calls in sequence; an exception of any of them *)
(* is re-raised, so the calls after it do not run.                         *)

TransformSteps ==
    <<"transform_circuits", "transform_drivers", "transform_races",
      "transform_results", "transform_qualifying", "transform_pit_stops",
      "transform_standings">>

\* where transform_all goes after the call at position i returned or raised
AfterTransform(i, res) ==
    IF res.raised THEN "transform_failed"
    ELSE IF i < Len(TransformSteps) THEN TransformSteps[i + 1]
    ELSE "transform_done"

\* the effect of the call at position i: the files it wrote, and where
\* transform_all goes next
TransformReturn(i, res) ==
    /\ processed' = [n \in DOMAIN processed |->
                        IF n \in DOMAIN res.out THEN res.out[n] ELSE processed[n]]
    /\ pc' = AfterTransform(i, res)
    /\ UNCHANGED <<raw, db, extractVars, runVars>>

TransformCircuits ==
    /\ pc = "transform_circuits"
    /\ TransformReturn(1, transform_circuits(raw))

TransformDrivers ==
    /\ pc = "transform_drivers"
    /\ TransformReturn(2, transform_drivers(raw))

TransformRaces ==
    /\ pc = "transform_races"
    /\ TransformReturn(3, transform_races(raw))

TransformResults ==
    /\ pc = "transform_results"
    /\ TransformReturn(4, transform_results(raw))

TransformQualifying ==
    /\ pc = "transform_qualifying"
    /\ TransformReturn(5, transform_qualifying(raw))

TransformPitStops ==
    /\ pc = "transform_pit_stops"
    /\ TransformReturn(6, transform_pit_stops(raw))

TransformStandings ==
    /\ pc = "transform_standings"
    /\ TransformReturn(7, transform_standings(raw))

NextTransform ==
    \/ TransformCircuits
    \/ TransformDrivers
    \/ TransformRaces
    \/ TransformResults
    \/ TransformQualifying
    \/ TransformPitStops
    \/ TransformStandings


-----------------------------------------------------------------------------
(* Staged inputs.  A staged row is written as a record; the file of a      *)
(* non-empty sequence of rows has the fields of the rows as its columns.   *)

RawNames ==
    {"circuits", "seasons", "constructors", "drivers", "races", "results",
     "qualifying", "pit_stops", "constructor_standings", "driver_standings"}

CleanNames ==
    {"circuits_clean", "drivers_clean", "races_clean", "results_clean",
     "qualifying_clean", "pit_stops_clean", "constructor_standings_clean",
     "driver_standings_clean"}

\* the file to_csv writes for a DataFrame without columns
EmptyFile == to_csv(EmptyDF)

FileOf(cols, rows) == [exists |-> TRUE, cols |-> cols, rows |-> rows]

\* all sequences over S of length lo..hi
SeqsOf(S, lo, hi) == UNION {[1..n -> S] : n \in lo..hi}

\* rows of the shapes extract_* stage them
CircuitRow(ref) == [circuit_ref |-> Str(ref), altitude |-> NaN]
ConstructorRow(id, ref) == [constructor_id |-> Num(id), constructor_ref |-> Str(ref)]
DriverRow(id, ref) ==
    [driver_id |-> Num(id), driver_ref |-> Str(ref), driver_number |-> NaN]
RaceRow(year, round, cref) ==
    [year |-> Num(year), round |-> Num(round),
     race_id |-> Num(MakeRaceId(year, round)),
     circuit_ref |-> Str(cref), race_time |-> Str("15:00:00")]
ResultRow(race, dref, cref, position, position_order, status) ==
    [race_id |-> Num(race), driver_ref |-> dref, constructor_ref |-> cref,
     number |-> Num(1), grid |-> Num(1), position |-> position,
     position_order |-> position_order, points |-> Num(25), laps |-> Num(57),
     milliseconds |-> NaN, fastest_lap |-> NaN, fastest_lap_rank |-> NaN,
     status |-> status]
QualifyingRow(race, dref, cref) ==
    [race_id |-> Num(race), driver_ref |-> dref, constructor_ref |-> cref,
     number |-> Num(1), position |-> Num(1),
     q1 |-> Str("1:30.031"), q2 |-> NaN, q3 |-> NaN]
PitStopRow(race, dref, duration, milliseconds) ==
    [race_id |-> Num(race), driver_ref |-> dref, stop |-> Num(1), lap |-> Num(12),
     time_of_day |-> Str("15:21:07"), duration |-> duration,
     milliseconds |-> milliseconds]
ConstructorStandingRow(race, cref) ==
    [race_id |-> Num(race), constructor_ref |-> cref,
     points |-> Num(44), position |-> Num(1), wins |-> Num(1)]
DriverStandingRow(race, dref) ==
    [race_id |-> Num(race), driver_ref |-> dref,
     points |-> Num(26), position |-> Num(1), wins |-> Num(1)]

RowsFile(rows) == FileOf(DOMAIN rows[1], rows)

\* one consistent staged data set: one circuit, constructor, driver and race
SampleRace == MakeRaceId(2024, 1)

SampleRaw ==
    [n \in RawNames |->
        CASE n = "circuits" -> RowsFile(<<CircuitRow("bahrain")>>)
          [] n = "seasons" -> RowsFile(<<[year |-> Num(2024)]>>)
          [] n = "constructors" -> RowsFile(<<ConstructorRow(1, "red_bull")>>)
          [] n = "drivers" -> RowsFile(<<DriverRow(1, "max_verstappen")>>)
          [] n = "races" -> RowsFile(<<RaceRow(2024, 1, "bahrain")>>)
          [] n = "results" ->
                RowsFile(<<ResultRow(SampleRace, Str("max_verstappen"), Str("red_bull"),
                                     Num(1), Num(1), Str("Finished"))>>)
          [] n = "qualifying" ->
                RowsFile(<<QualifyingRow(SampleRace, Str("max_verstappen"),
                                         Str("red_bull"))>>)
          [] n = "pit_stops" ->
                RowsFile(<<PitStopRow(SampleRace, Str("max_verstappen"),
                                      Dec(21, 5000), Num(21500))>>)
          [] n = "constructor_standings" ->
                RowsFile(<<ConstructorStandingRow(SampleRace, Str("red_bull"))>>)
          [] n = "driver_standings" ->
                RowsFile(<<DriverStandingRow(SampleRace, Str("max_verstappen"))>>)]

NoProcessed == [n \in CleanNames |-> NoFile]

\* the staged data set with some files replaced
RawWith(files) == [n \in RawNames |-> IF n \in DOMAIN files THEN files[n] ELSE SampleRaw[n]]

-----------------------------------------------------------------------------
(* F1DataExtractor.  api holds, per endpoint, the list the API serves.  A  *)
(* string of digits in a response is the sequence of its digits; int() of  *)
(* it is StrToInt.                                                         *)

Endpoints ==
    {"circuits", "seasons", "constructors", "drivers", "races", "results",
     "qualifying", "pitstops", "constructorStandings", "driverStandings"}

\* limit = 100 of the paginated extract_* methods: the model pages by PageLimit
PageLimit == 2
limit == PageLimit

\* range(1, 25) of extract_standings: the model asks for rounds 1..MaxRound
MaxRound == 2

Min(a, b) == IF a < b THEN a ELSE b
Max(a, b) == IF a > b THEN a ELSE b

\* the request for one page of an endpoint (limit left out: an endpoint is
\* always asked with the same limit)
Req(res, year, round, off) ==
    [res |-> res, year |-> year, round |-> round, offset |-> off]

\* the list the API holds for an endpoint
Upstream(res, year, round) ==
    CASE res \in {"circuits", "seasons", "constructors", "drivers"} -> api[res]
      [] res \in {"races", "results", "qualifying", "pitstops"} -> api[res][year]
      [] OTHER -> api[res][year][round]

\* the items a request with ?limit=lim&offset=off is answered with
Page(list, lim, off) == SubSeq(list, off + 1, Min(off + lim, Len(list)))

\* the key under which a race object of a grouped endpoint holds its records
RecordsField(res) ==
    CASE res = "results" -> "Results"
      [] res = "qualifying" -> "QualifyingResults"
      [] res = "pitstops" -> "PitStops"

\* the number of records held by the race objects before the i-th
RECURSIVE RecordsBefore(_, _, _)
RecordsBefore(list, field, i) ==
    IF i = 1 THEN 0
    ELSE RecordsBefore(list, field, i - 1) + Len(list[i - 1][field])

\* the answer of an upstream that applies limit and offset to the individual
\* records: the records off+1..off+lim, grouped under their race objects
PageRecords(list, field, lim, off) ==
    LET trimmed ==
          [i \in DOMAIN list |->
              LET before == RecordsBefore(list, field, i) IN
              [list[i] EXCEPT ![field] =
                  SubSeq(@, Max(off + 1 - before, 1),
                            Min(off + lim - before, Len(@)))]]
    IN SelectSeq(trimmed, LAMBDA obj : obj[field] # <<>>)

\* what the API answers a request with: api.paging tells whether it counts
\* the race objects or the records in them against limit and offset
Served(res, year, round, lim, off) ==
    IF api.paging = "records" /\ res \in {"results", "qualifying", "pitstops"}
    THEN PageRecords(Upstream(res, year, round), RecordsField(res), lim, off)
    ELSE Page(Upstream(res, year, round), lim, off)

\* A JSON object is the sequence of its entries, in the order of the
\* document; a value of a table container is a list or something else,
\* which Python holds for true or false.
Entry(key, value) == [key |-> key, value |-> value]
ListValue(items) == [islist |-> TRUE, truthy |-> items # <<>>, items |-> items]
OtherValue(truthy) == [islist |-> FALSE, truthy |-> truthy, items |-> <<>>]

\* the table_name an extract_* method passes to _extract_table
TableName(res) ==
    CASE res = "circuits" -> "CircuitsTable"
      [] res = "seasons" -> "SeasonTable"
      [] res = "constructors" -> "ConstructorTable"
      [] res = "drivers" -> "DriverTable"
      [] res \in {"races", "results", "qualifying", "pitstops"} -> "RaceTable"
      [] OTHER -> "StandingsTable"

\* the names under which the API serves an endpoint's table container and
\* the list in it (the circuits container is CircuitTable)
ServedTable(res) == IF res = "circuits" THEN "CircuitTable" ELSE TableName(res)
ServedList(res) ==
    CASE res = "circuits" -> "Circuits"
      [] res = "seasons" -> "Seasons"
      [] res = "constructors" -> "Constructors"
      [] res = "drivers" -> "Drivers"
      [] res \in {"races", "results", "qualifying", "pitstops"} -> "Races"
      [] OTHER -> "StandingsLists"

\* the document an endpoint answers with, around the items of the page;
\* api.envelope[res] tells its shape
Response(res, items) ==
    LET shape == api.envelope[res]
        total == Entry("total", <<>>)
        season == Entry("season", OtherValue(TRUE))
        table == <<season, Entry(ServedList(res), ListValue(items))>>
    IN CASE shape = "served" ->
              [hasMRData |-> TRUE,
               MRData |-> <<total, Entry(ServedTable(res), table)>>]
         [] shape = "renamed" ->
              [hasMRData |-> TRUE, MRData |-> <<total, Entry("DataTable", table)>>]
         [] shape = "empty_first" ->
              [hasMRData |-> TRUE,
               MRData |-> <<total, Entry("AuxTable", <<>>), Entry("DataTable", table)>>]
         [] shape = "no_mrdata" -> [hasMRData |-> FALSE, MRData |-> <<>>]
         [] shape = "no_table" -> [hasMRData |-> TRUE, MRData |-> <<total>>]
         [] shape = "no_list" ->
              [hasMRData |-> TRUE, MRData |-> <<total, Entry(ServedTable(res), <<season>>)>>]
         [] shape = "single_object" ->
              [hasMRData |-> TRUE,
               MRData |-> <<total, Entry(ServedTable(res),
                                         <<season, Entry("StandingsLists",
                                                         OtherValue(TRUE))>>)>>]
         [] shape = "null_list" ->
              [hasMRData |-> TRUE,
               MRData |-> <<total, Entry(ServedTable(res),
                                         <<season, Entry("StandingsLists",
                                                         OtherValue(FALSE))>>)>>]

NoResponse == [hasMRData |-> FALSE, MRData |-> <<>>]

\* _make_request without its except clause: the RequestException leaves it
make_request_uncaught(res, year, round, lim, off) ==
    IF Req(res, year, round, off) \in failing
    THEN [returns |-> TRUE, raised |-> TRUE, ok |-> FALSE, slept |-> FALSE,
          json |-> NoResponse]
    ELSE [returns |-> TRUE, raised |-> FALSE, ok |-> TRUE, slept |-> TRUE,
          json |-> Response(res, Served(res, year, round, lim, off))]

\* _make_request whose requests.get has no timeout: a request that gets no
\* answer never returns
make_request_no_timeout(res, year, round, lim, off) ==
    IF Req(res, year, round, off) \in failing
    THEN [returns |-> FALSE, raised |-> FALSE, ok |-> FALSE, slept |-> FALSE,
          json |-> NoResponse]
    ELSE [returns |-> TRUE, raised |-> FALSE, ok |-> TRUE, slept |-> TRUE,
          json |-> Response(res, Served(res, year, round, lim, off))]

\* _make_request: the response, or None (ok = FALSE) after a timeout or a
\* non-2xx status; no exception leaves it.  requests.get has a timeout, so
\* the call returns; time.sleep(0.5) follows a response and nothing else.
make_request(res, year, round, lim, off) ==
    IF Req(res, year, round, off) \in failing
    THEN [returns |-> TRUE, raised |-> FALSE, ok |-> FALSE, slept |-> FALSE,
          json |-> NoResponse]
    ELSE [returns |-> TRUE, raised |-> FALSE, ok |-> TRUE, slept |-> TRUE,
          json |-> Response(res, Served(res, year, round, lim, off))]

\* the entry of the log for a request: what was asked, how it ended, how
\* many items _extract_table found in the answer, and whether a delay
\* followed before _make_request returned
Sent(req, data, table) ==
    [req |-> req, ok |-> data.ok, len |-> Len(table.items), slept |-> data.slept]

\* key.endswith(suffix)
EndsWith(key, suffix) ==
    /\ Len(key) >= Len(suffix)
    /\ SubSeq(key, Len(key) - Len(suffix) + 1, Len(key)) = suffix

\* the positions of the entries of a JSON object that meet a test, and the
\* first of a set of positions
KeyedAt(dict, key) == {i \in DOMAIN dict : dict[i].key = key}
TablesAt(dict) == {i \in DOMAIN dict : EndsWith(dict[i].key, "Table")}
ListsAt(dict) == {i \in DOMAIN dict : dict[i].value.islist}
FirstOf(positions) == CHOOSE i \in positions : \A j \in positions : i <= j

\* _extract_table: [] for no response or no MRData; the container asked for
\* or, when that is missing or empty, the first one whose key ends in
\* 'Table'; of the container its first list, else its StandingsLists value,
\* else []
extract_table(data, table_name) ==
    IF ~data.ok \/ ~data.json.hasMRData THEN ListValue(<<>>)
    ELSE LET mr_data == data.json.MRData
             asked == IF KeyedAt(mr_data, table_name) = {} THEN <<>>
                      ELSE mr_data[FirstOf(KeyedAt(mr_data, table_name))].value
             table_data == IF asked # <<>> THEN asked
                           ELSE IF TablesAt(mr_data) = {} THEN <<>>
                           ELSE mr_data[FirstOf(TablesAt(mr_data))].value
         IN IF table_data = <<>> THEN ListValue(<<>>)
            ELSE IF ListsAt(table_data) # {}
            THEN table_data[FirstOf(ListsAt(table_data))].value
            ELSE IF KeyedAt(table_data, "StandingsLists") # {}
            THEN table_data[FirstOf(KeyedAt(table_data, "StandingsLists"))].value
            ELSE ListValue(<<>>)

\* the loop `for x in table` of an extract_* method, which `if not table`
\* guards, over what is no list: its elements have no .get, or it cannot be
\* iterated
IterationRaises(table) == ~table.islist /\ table.truthy

\* a string of a response that may or may not be a number
Digits(ds) == [isdigit |-> ds # <<>>, ds |-> ds, s |-> ""]
Text(s) == [isdigit |-> FALSE, ds |-> <<>>, s |-> s]

\* int(x) if x.isdigit() else d
IntIfDigit(x, d) == IF x.isdigit THEN Num(StrToInt(x.ds)) ELSE d

\* an appended row, with the year and round it came from (history)
From(row, year, round) == [row |-> row, year |-> year, round |-> round]

RECURSIVE Flatten(_)
Flatten(lists) == IF lists = <<>> THEN <<>> ELSE Head(lists) \o Flatten(Tail(lists))

\* the rows extract_races appends for a page
RaceRows(year, races) ==
    [i \in DOMAIN races |->
        From(RaceRow(year, StrToInt(races[i].round), races[i].circuitId),
             year, StrToInt(races[i].round))]

\* the rows extract_results appends for one race
ResultRows(year, race) ==
    LET round_num == StrToInt(race.round)
        race_id == MakeRaceId(year, round_num)
    IN [j \in DOMAIN race.Results |->
          LET result == race.Results[j] IN
          From(ResultRow(race_id, Str(result.driverId), Str(result.constructorId),
                         IntIfDigit(result.position, NaN),
                         IntIfDigit(result.position, Num(999)),
                         Str(result.status)),
               year, round_num)]

\* the rows extract_qualifying appends for one race
QualifyingRows(year, race) ==
    LET round_num == StrToInt(race.round)
        race_id == MakeRaceId(year, round_num)
    IN [j \in DOMAIN race.QualifyingResults |->
          LET qualifying == race.QualifyingResults[j] IN
          From(QualifyingRow(race_id, Str(qualifying.driverId),
                             Str(qualifying.constructorId)),
               year, round_num)]

\* float(duration) raises ValueError: the duration is text that is no number
BadDuration(duration) == duration.k = "str" /\ duration # Str("")

\* int(float(duration) * 1000) if duration else None
DurationMillis(duration) ==
    IF duration = Str("") THEN NaN ELSE astype_int(times1000(duration))

\* the rows extract_pit_stops appends for one race
PitStopRows(year, race) ==
    LET round_num == StrToInt(race.round)
        race_id == MakeRaceId(year, round_num)
    IN [j \in DOMAIN race.PitStops |->
          LET pit_stop == race.PitStops[j] IN
          From(PitStopRow(race_id, Str(pit_stop.driverId), pit_stop.duration,
                          DurationMillis(pit_stop.duration)),
               year, round_num)]

\* the rows extract_standings appends for one element of the response's
\* list: one per entry of each of the element's own StandingsLists
StandingRows(kind, year, standing_list) ==
    Flatten([s \in DOMAIN standing_list.StandingsLists |->
        LET standing == standing_list.StandingsLists[s]
            round_num_actual == StrToInt(standing.round)
            race_id == MakeRaceId(year, round_num_actual)
        IN [j \in DOMAIN standing.entries |->
              From(IF kind = "constructor"
                   THEN ConstructorStandingRow(race_id, Str(standing.entries[j]))
                   ELSE DriverStandingRow(race_id, Str(standing.entries[j])),
                   year, round_num_actual)]])

\* the rows an extract_* method appends for one page of its endpoint
RowsOf(res, year, page) ==
    CASE res = "circuits" ->
            [i \in DOMAIN page |-> From(CircuitRow(page[i]), 0, 0)]
      [] res = "seasons" ->
            [i \in DOMAIN page |-> From([year |-> Num(StrToInt(page[i]))], 0, 0)]
      [] res = "constructors" ->
            [i \in DOMAIN page |-> From([constructor_ref |-> Str(page[i])], 0, 0)]
      [] res = "drivers" ->
            [i \in DOMAIN page |->
                From([driver_ref |-> Str(page[i]), driver_number |-> NaN], 0, 0)]
      [] res = "races" -> RaceRows(year, page)
      [] res = "results" -> Flatten([i \in DOMAIN page |-> ResultRows(year, page[i])])
      [] res = "qualifying" ->
            Flatten([i \in DOMAIN page |-> QualifyingRows(year, page[i])])
      [] res = "pitstops" -> Flatten([i \in DOMAIN page |-> PitStopRows(year, page[i])])
      [] res = "constructorStandings" ->
            Flatten([i \in DOMAIN page |-> StandingRows("constructor", year, page[i])])
      [] res = "driverStandings" ->
            Flatten([i \in DOMAIN page |-> StandingRows("driver", year, page[i])])

\* building the rows of a page raises (only extract_pit_stops can)
RowsRaise(res, page) ==
    /\ res = "pitstops"
    /\ \E i \in DOMAIN page : \E j \in DOMAIN page[i].PitStops :
          BadDuration(page[i].PitStops[j].duration)

Rows(all_rows) == [i \in DOMAIN all_rows |-> all_rows[i].row]
Origins(all_rows) ==
    [i \in DOMAIN all_rows |-> [year |-> all_rows[i].year, round |-> all_rows[i].round]]

\* pd.DataFrame(list of dicts): no column at all for the empty list
DataFrame(list) ==
    IF list = <<>> THEN EmptyDF ELSE [cols |-> DOMAIN list[1], rows |-> list]

\* the file an endpoint is staged in
FileName(res) ==
    CASE res = "pitstops" -> "pit_stops"
      [] res = "constructorStandings" -> "constructor_standings"
      [] res = "driverStandings" -> "driver_standings"
      [] OTHER -> res

\* the DataFrame an extract_* method writes: extract_constructors and
\* extract_drivers insert the id column, range(1, len(df) + 1)
Frame(res, list) ==
    LET df == DataFrame(list) IN
    CASE res = "constructors" -> WithCol(df, "constructor_id", Range1(df))
      [] res = "drivers" -> WithCol(df, "driver_id", Range1(df))
      [] OTHER -> df

\* the locals of an extract_* method as it starts
NewLoop(year) == [year |-> year, offset |-> 0, round |-> 1, acc |-> <<>>, acc2 |-> <<>>]

\* the year the loop of a call of extract_all starts from (0 where there is
\* no loop over years)
FirstYear(step) ==
    CASE step \in {"extract_races", "extract_results", "extract_qualifying",
                   "extract_constructor_standings"} -> args.start_year
      [] step = "extract_pit_stops" -> Max(2012, args.start_year)
      [] OTHER -> 0

\* extract_all with the races asked for before the drivers
AfterExtractRacesFirst(step) ==
    CASE step = "extract_circuits" -> "extract_seasons"
      [] step = "extract_seasons" -> "extract_constructors"
      [] step = "extract_constructors" -> "extract_races"
      [] step = "extract_races" -> "extract_drivers"
      [] step = "extract_drivers" -> "extract_results"
      [] step = "extract_results" -> "extract_qualifying"
      [] step = "extract_qualifying" -> "extract_pit_stops"
      [] step = "extract_pit_stops" -> "extract_constructor_standings"
      [] step = "extract_driver_standings" -> "extract_done"

\* the call extract_all makes after a call has returned (extract_standings
\* is the last; its second loop is the step extract_driver_standings)
AfterExtract(step) ==
    CASE step = "extract_circuits" -> "extract_seasons"
      [] step = "extract_seasons" -> "extract_constructors"
      [] step = "extract_constructors" -> "extract_drivers"
      [] step = "extract_drivers" -> "extract_races"
      [] step = "extract_races" -> "extract_results"
      [] step = "extract_results" -> "extract_qualifying"
      [] step = "extract_qualifying" -> "extract_pit_stops"
      [] step = "extract_pit_stops" -> "extract_constructor_standings"
      [] step = "extract_driver_standings" -> "extract_done"

\* the exception of an extract_* method is re-raised by extract_all
ExtractRaised ==
    /\ pc' = "extract_failed"
    /\ UNCHANGED <<raw, ex, origin>>

\* to_csv at the end of an extract_* method, and the next call of extract_all
Stage(res, all_rows, next) ==
    /\ raw' = [raw EXCEPT ![FileName(res)] = to_csv(Frame(res, Rows(all_rows)))]
    /\ origin' = [origin EXCEPT ![FileName(res)] = Origins(all_rows)]
    /\ pc' = next
    /\ ex' = NewLoop(FirstYear(next))

\* a paginated loop that goes on after every page that is not empty
MorePagesUnlessEmpty(page) == page # <<>>

\* the tests at the end of a pass of the while True loop: the loop goes on
\* unless the page is empty (`if not x: break`) or short
\* (`if len(x) < limit: break`)
MorePages(page) == page # <<>> /\ Len(page) >= limit

\* one pass of the while True loop of a paginated extract_* method; yearly:
\* the loop is inside a loop over the years
ExtractPage(res, yearly, next) ==
    LET data == make_request(res, ex.year, 0, limit, ex.offset)
        table == extract_table(data, TableName(res))
        page == table.items
        all_rows == ex.acc \o RowsOf(res, ex.year, page)
    IN /\ data.returns
       /\ requested' = requested \cup {Req(res, ex.year, 0, ex.offset)}
       /\ log' = Append(log, Sent(Req(res, ex.year, 0, ex.offset), data, table))
       /\ IF data.raised \/ IterationRaises(table) \/ RowsRaise(res, page)
          THEN ExtractRaised
          ELSE IF MorePages(page)
          THEN /\ ex' = [ex EXCEPT !.offset = @ + limit, !.acc = all_rows]
               /\ UNCHANGED <<pc, raw, origin>>
          ELSE IF yearly /\ ex.year < args.end_year
          THEN /\ ex' = [ex EXCEPT !.year = @ + 1, !.offset = 0, !.acc = all_rows]
               /\ UNCHANGED <<pc, raw, origin>>
          ELSE Stage(res, all_rows, next)
       /\ UNCHANGED <<processed, db, api, failing, args, runVars>>

ExtractCircuits ==
    /\ pc = "extract_circuits"
    /\ ExtractPage("circuits", FALSE, AfterExtract("extract_circuits"))

\* extract_seasons: one request; None makes it return without writing; the
\* loop over the table has no guard
ExtractSeasons ==
    /\ pc = "extract_seasons"
    /\ LET data == make_request("seasons", 0, 0, limit, 0)
           seasons == extract_table(data, TableName("seasons"))
       IN
       /\ data.returns
       /\ requested' = requested \cup {Req("seasons", 0, 0, 0)}
       /\ log' = Append(log, Sent(Req("seasons", 0, 0, 0), data, seasons))
       /\ IF data.raised \/ ~seasons.islist THEN ExtractRaised
          ELSE IF ~data.ok
          THEN /\ pc' = AfterExtract("extract_seasons")
               /\ ex' = NewLoop(FirstYear(AfterExtract("extract_seasons")))
               /\ UNCHANGED <<raw, origin>>
          ELSE Stage("seasons", RowsOf("seasons", 0, seasons.items),
                     AfterExtract("extract_seasons"))
    /\ UNCHANGED <<processed, db, api, failing, args, runVars>>

ExtractConstructors ==
    /\ pc = "extract_constructors"
    /\ ExtractPage("constructors", FALSE, AfterExtract("extract_constructors"))

ExtractDrivers ==
    /\ pc = "extract_drivers"
    /\ ExtractPage("drivers", FALSE, AfterExtract("extract_drivers"))

ExtractRaces ==
    /\ pc = "extract_races"
    /\ ExtractPage("races", TRUE, AfterExtract("extract_races"))

ExtractResults ==
    /\ pc = "extract_results"
    /\ ExtractPage("results", TRUE, AfterExtract("extract_results"))

ExtractQualifying ==
    /\ pc = "extract_qualifying"
    /\ ExtractPage("qualifying", TRUE, AfterExtract("extract_qualifying"))

ExtractPitStops ==
    /\ pc = "extract_pit_stops"
    /\ ExtractPage("pitstops", TRUE, AfterExtract("extract_pit_stops"))

\* a loop over the rounds that a failed request ends (break for continue)
RoundsDoneOrFailed(data, round_num) == round_num >= MaxRound \/ ~data.ok

\* for round_num in range(1, 25): the pass for round_num was the last one,
\* however its request ended (`continue` goes on with the next round)
RoundsDone(data, round_num) == round_num >= MaxRound

\* extract_standings, one pass of the first loop over the rounds of a year
ExtractConstructorStandings ==
    /\ pc = "extract_constructor_standings"
    /\ LET data == make_request("constructorStandings", ex.year, ex.round, 1000, 0)
           standings == extract_table(data, TableName("constructorStandings"))
           all_constructor_standings ==
               ex.acc \o RowsOf("constructorStandings", ex.year, standings.items)
       IN /\ data.returns
          /\ requested' = requested \cup {Req("constructorStandings", ex.year, ex.round, 0)}
          /\ log' = Append(log, Sent(Req("constructorStandings", ex.year, ex.round, 0), data,
                                     standings))
          /\ IF data.raised \/ IterationRaises(standings) THEN ExtractRaised
             ELSE /\ ex' = [ex EXCEPT
                              !.round = IF RoundsDone(data, @) THEN 1 ELSE @ + 1,
                              !.acc = all_constructor_standings]
                  /\ pc' = IF RoundsDone(data, ex.round)
                           THEN "extract_driver_standings" ELSE pc
                  /\ UNCHANGED <<raw, origin>>
    /\ UNCHANGED <<processed, db, api, failing, args, runVars>>

\* extract_standings, one pass of the second loop over the rounds of a year;
\* after the last round of the last year both files are written
ExtractDriverStandings ==
    /\ pc = "extract_driver_standings"
    /\ LET data == make_request("driverStandings", ex.year, ex.round, 1000, 0)
           standings == extract_table(data, TableName("driverStandings"))
           all_driver_standings ==
               ex.acc2 \o RowsOf("driverStandings", ex.year, standings.items)
       IN /\ data.returns
          /\ requested' = requested \cup {Req("driverStandings", ex.year, ex.round, 0)}
          /\ log' = Append(log, Sent(Req("driverStandings", ex.year, ex.round, 0), data,
                                     standings))
          /\ IF data.raised \/ IterationRaises(standings) THEN ExtractRaised
             ELSE IF ~RoundsDone(data, ex.round)
             THEN /\ ex' = [ex EXCEPT !.round = @ + 1, !.acc2 = all_driver_standings]
                  /\ UNCHANGED <<pc, raw, origin>>
             ELSE IF ex.year < args.end_year
             THEN /\ ex' = [ex EXCEPT !.year = @ + 1, !.round = 1,
                                      !.acc2 = all_driver_standings]
                  /\ pc' = "extract_constructor_standings"
                  /\ UNCHANGED <<raw, origin>>
             ELSE /\ raw' = [raw EXCEPT
                      !["constructor_standings"] =
                          to_csv(Frame("constructorStandings", Rows(ex.acc))),
                      !["driver_standings"] =
                          to_csv(Frame("driverStandings", Rows(all_driver_standings)))]
                  /\ origin' = [origin EXCEPT
                      !["constructor_standings"] = Origins(ex.acc),
                      !["driver_standings"] = Origins(all_driver_standings)]
                  /\ pc' = AfterExtract("extract_driver_standings")
                  /\ ex' = NewLoop(0)
    /\ UNCHANGED <<processed, db, api, failing, args, runVars>>

NextExtract ==
    \/ ExtractCircuits
    \/ ExtractSeasons
    \/ ExtractConstructors
    \/ ExtractDrivers
    \/ ExtractRaces
    \/ ExtractResults
    \/ ExtractQualifying
    \/ ExtractPitStops
    \/ ExtractConstructorStandings
    \/ ExtractDriverStandings

-----------------------------------------------------------------------------
(* F1DataLoader, with the default (sqlite) configuration.                  *)

NoTable == [exists |-> FALSE, cols |-> {}, rows |-> <<>>]
NoDb == [t \in RawNames |-> NoTable]

\* df[[col for col in required_cols if col in df.columns]]
KeepCols(df, required_cols) == Select(df, required_cols \cap df.cols)

\* _load_table that appends to the rows the table holds
load_table_append(d, table_name, df) ==
    IF IsEmpty(df) THEN d
    ELSE [d EXCEPT ![table_name] =
            [exists |-> TRUE, cols |-> df.cols, rows |-> d[table_name].rows \o df.rows]]

\* _load_table: an empty DataFrame is skipped; any other one replaces the
\* table (to_sql with if_exists='replace')
load_table(d, table_name, df) ==
    IF IsEmpty(df) THEN d
    ELSE [d EXCEPT ![table_name] = [exists |-> TRUE, cols |-> df.cols, rows |-> df.rows]]

\* the columns load_results, load_qualifying, load_pit_stops and
\* load_standings keep; {} for the load_* methods that keep every column
required_cols(table_name) ==
    CASE table_name = "results" ->
            {"race_id", "driver_id", "constructor_id", "number", "grid", "position",
             "position_text", "position_order", "points", "laps", "time_result",
             "milliseconds", "fastest_lap", "fastest_lap_rank", "fastest_lap_time",
             "fastest_lap_speed", "status_id"}
      [] table_name = "qualifying" ->
            {"race_id", "driver_id", "constructor_id", "number", "position",
             "q1", "q2", "q3"}
      [] table_name = "pit_stops" ->
            {"race_id", "driver_id", "stop", "lap", "time_of_day", "duration",
             "milliseconds"}
      [] table_name = "constructor_standings" ->
            {"race_id", "constructor_id", "points", "position", "position_text", "wins"}
      [] table_name = "driver_standings" ->
            {"race_id", "driver_id", "points", "position", "position_text", "wins"}
      [] OTHER -> {}

\* what a load_* method does to the DataFrame it read
Prepared(table_name, df) ==
    LET d1 == IF table_name \in {"races", "pit_stops"}
              THEN LET c == IF table_name = "races" THEN "race_time" ELSE "time_of_day"
                   IN IF HasCol(df, c)
                      THEN WithCol(df, c, FillNa(Col(df, c), Str("00:00:00")))
                      ELSE df
              ELSE df
    IN IF required_cols(table_name) = {} THEN d1
       ELSE KeepCols(d1, required_cols(table_name))

\* a load_* method: read_csv (an exception of it is re-raised by load_all),
\* then _load_table
LoadFile(f, table_name, next) ==
    /\ LET r == read_csv(f) IN
       IF ~r.ok THEN pc' = "load_failed" /\ UNCHANGED db
       ELSE /\ db' = load_table(db, table_name, Prepared(table_name, r.df))
            /\ pc' = next
    /\ UNCHANGED <<raw, processed, extractVars, runVars>>

LoadSeasons ==
    /\ pc = "load_seasons"
    /\ LoadFile(raw["seasons"], "seasons", "load_circuits")

LoadCircuits ==
    /\ pc = "load_circuits"
    /\ LoadFile(processed["circuits_clean"], "circuits", "load_constructors")

LoadConstructors ==
    /\ pc = "load_constructors"
    /\ LoadFile(raw["constructors"], "constructors", "load_drivers")

LoadDrivers ==
    /\ pc = "load_drivers"
    /\ LoadFile(processed["drivers_clean"], "drivers", "load_races")

LoadRaces ==
    /\ pc = "load_races"
    /\ LoadFile(processed["races_clean"], "races", "load_results")

LoadResults ==
    /\ pc = "load_results"
    /\ LoadFile(processed["results_clean"], "results", "load_qualifying")

LoadQualifying ==
    /\ pc = "load_qualifying"
    /\ LoadFile(processed["qualifying_clean"], "qualifying", "load_pit_stops")

LoadPitStops ==
    /\ pc = "load_pit_stops"
    /\ LoadFile(processed["pit_stops_clean"], "pit_stops", "load_standings")

\* load_standings: the constructor standings, then the driver standings
LoadStandings ==
    /\ pc = "load_standings"
    /\ LET c == read_csv(processed["constructor_standings_clean"])
           d == read_csv(processed["driver_standings_clean"])
           db1 == load_table(db, "constructor_standings",
                             Prepared("constructor_standings", c.df))
       IN IF ~c.ok THEN pc' = "load_failed" /\ UNCHANGED db
          ELSE IF ~d.ok THEN pc' = "load_failed" /\ db' = db1
          ELSE /\ db' = load_table(db1, "driver_standings",
                                   Prepared("driver_standings", d.df))
               /\ pc' = "load_done"
    /\ UNCHANGED <<raw, processed, extractVars, runVars>>

NextLoad ==
    \/ LoadSeasons
    \/ LoadCircuits
    \/ LoadConstructors
    \/ LoadDrivers
    \/ LoadRaces
    \/ LoadResults
    \/ LoadQualifying
    \/ LoadPitStops
    \/ LoadStandings

-----------------------------------------------------------------------------
(* run_full_pipeline without skip flags: extract_all, transform_all,       *)
(* load_all; an exception of any of them ends the run.  The pipeline is    *)
(* then run a second time over what the first run left.                    *)

RunTransformer ==
    /\ pc = "extract_done"
    /\ pc' = "transform_circuits"
    /\ UNCHANGED <<raw, processed, db, extractVars, runVars>>

RunLoader ==
    /\ pc = "transform_done"
    /\ pc' = "load_seasons"
    /\ UNCHANGED <<raw, processed, db, extractVars, runVars>>

\* where a run of the pipeline ends
RunEnded == {"extract_failed", "transform_failed", "load_failed", "load_done"}

NoOrigin == [n \in RawNames |-> <<>>]

\* the second run: the same upstream snapshot and the same failing requests
RunAgain ==
    /\ pc \in RunEnded
    /\ run = 1
    /\ snap' = [raw |-> raw, processed |-> processed, db |-> db, pc |-> pc]
    /\ run' = 2
    /\ pc' = "extract_circuits"
    /\ ex' = NewLoop(0)
    /\ requested' = {}
    /\ log' = <<>>
    /\ origin' = NoOrigin
    /\ UNCHANGED <<raw, processed, db, api, failing, args>>

NextPipeline ==
    \/ NextExtract
    \/ RunTransformer
    \/ NextTransform
    \/ RunLoader
    \/ NextLoad
    \/ RunAgain

-----------------------------------------------------------------------------
(* Upstream snapshots: a base snapshot, and the snapshots that differ from *)
(* it in one endpoint.                                                     *)

\* longest list an endpoint serves
MaxItems == 3
\* most requests that fail in a run
MaxFailures == 1

Years == 2011..2012

CircuitIds == <<"bahrain", "monza", "spa", "suzuka", "monaco">>
ConstructorIds == <<"red_bull", "ferrari", "mclaren", "mercedes", "williams">>
DriverIds == <<"max_verstappen", "perez", "hamilton", "alonso", "leclerc">>
UpstreamRounds == <<1, 10, 100, 2, 3>>

First(list, n) == SubSeq(list, 1, n)

RaceObj(r) == [round |-> IntToStr(r), circuitId |-> "bahrain"]

ResultsObj(r) ==
    [round |-> IntToStr(r),
     Results |->
        <<[driverId |-> "max_verstappen", constructorId |-> "red_bull",
           position |-> Digits(<<1>>), status |-> "Finished"],
          [driverId |-> "perez", constructorId |-> "red_bull",
           position |-> Text("R"), status |-> "Collision"]>>]

QualifyingObj(r) ==
    [round |-> IntToStr(r),
     QualifyingResults |->
        <<[driverId |-> "max_verstappen", constructorId |-> "red_bull"]>>]

PitStopsObj(r, duration) ==
    [round |-> IntToStr(r),
     PitStops |-> <<[driverId |-> "max_verstappen", duration |-> duration]>>]

\* an element of the list a standings request is answered with: "flat" as
\* the API serves it (the entries are the element's own), "nested" with a
\* StandingsLists list of its own, which is what extract_standings reads
StandingsObj(r, shape, entry) ==
    [round |-> IntToStr(r),
     entries |-> IF shape = "flat" THEN <<entry>> ELSE <<>>,
     StandingsLists |->
        IF shape = "nested"
        THEN <<[round |-> IntToStr(r), entries |-> <<entry>>]>>
        ELSE <<>>]

RacesOf(n) == [i \in 1..n |-> RaceObj(UpstreamRounds[i])]
ResultsOf(n) == [i \in 1..n |-> ResultsObj(UpstreamRounds[i])]
QualifyingOf(n) == [i \in 1..n |-> QualifyingObj(UpstreamRounds[i])]
PitStopsOf(n, duration) == [i \in 1..n |-> PitStopsObj(UpstreamRounds[i], duration)]
StandingsOf(shape, entry) ==
    [y \in Years |-> [r \in 1..MaxRound |->
        IF shape = "none" THEN <<>> ELSE <<StandingsObj(r, shape, entry)>>]]

BaseSnapshot ==
    [circuits |-> First(CircuitIds, 1),
     seasons |-> <<IntToStr(2011), IntToStr(2012)>>,
     constructors |-> First(ConstructorIds, 1),
     drivers |-> First(DriverIds, 2),
     races |-> [y \in Years |-> RacesOf(2)],
     results |-> [y \in Years |-> ResultsOf(1)],
     qualifying |-> [y \in Years |-> QualifyingOf(1)],
     pitstops |-> [y \in Years |-> PitStopsOf(1, Dec(21, 5000))],
     constructorStandings |-> StandingsOf("nested", "red_bull"),
     driverStandings |-> StandingsOf("nested", "max_verstappen"),
     paging |-> "objects",
     envelope |-> [res \in Endpoints |-> "served"]]

\* the API serves nothing
EmptySnapshot ==
    [circuits |-> <<>>, seasons |-> <<>>, constructors |-> <<>>, drivers |-> <<>>,
     races |-> [y \in Years |-> <<>>],
     results |-> [y \in Years |-> <<>>],
     qualifying |-> [y \in Years |-> <<>>],
     pitstops |-> [y \in Years |-> <<>>],
     constructorStandings |-> StandingsOf("none", "red_bull"),
     driverStandings |-> StandingsOf("none", "max_verstappen"),
     paging |-> "objects",
     envelope |-> [res \in Endpoints |-> "served"]]

\* f with the list of one year replaced
WithYear(f, year, list) == [y \in Years |-> IF y = year THEN list ELSE f[y]]

PitDurations == {Dec(21, 5000), Dec(21, 4567), Str(""), Str("17:38.564")}

Snapshots ==
    {BaseSnapshot}
    \cup {[BaseSnapshot EXCEPT !.circuits = First(CircuitIds, n)] : n \in 0..MaxItems}
    \cup {[BaseSnapshot EXCEPT !.constructors = First(ConstructorIds, n)] :
            n \in 0..MaxItems}
    \cup {[BaseSnapshot EXCEPT !.drivers = First(DriverIds, n)] : n \in 0..MaxItems}
    \cup {[BaseSnapshot EXCEPT !.drivers = <<"perez", "max_verstappen">>],
          [BaseSnapshot EXCEPT !.seasons = <<>>],
          [BaseSnapshot EXCEPT !.qualifying = [y \in Years |-> <<>>]],
          [BaseSnapshot EXCEPT !.pitstops = [y \in Years |-> <<>>]],
          EmptySnapshot}
    \cup {[BaseSnapshot EXCEPT !.races = WithYear(@, y, RacesOf(n))] :
            y \in Years, n \in 0..MaxItems}
    \cup {[BaseSnapshot EXCEPT !.results = WithYear(@, y, ResultsOf(n))] :
            y \in Years, n \in 0..MaxItems}
    \cup {[BaseSnapshot EXCEPT !.qualifying = WithYear(@, y, QualifyingOf(n))] :
            y \in Years, n \in {0, MaxItems}}
    \cup {[BaseSnapshot EXCEPT !.pitstops = WithYear(@, y, PitStopsOf(n, d))] :
            y \in Years, n \in {1, MaxItems}, d \in PitDurations}
    \cup {[BaseSnapshot EXCEPT !.constructorStandings = StandingsOf(shape, "red_bull"),
                               !.driverStandings = StandingsOf(shape, "max_verstappen")] :
            shape \in {"none", "flat"}}

\* the snapshots that are also run with failing requests
FailingSnapshots ==
    {BaseSnapshot,
     [BaseSnapshot EXCEPT !.drivers = First(DriverIds, MaxItems)],
     [BaseSnapshot EXCEPT !.results = WithYear(@, 2011, ResultsOf(MaxItems))]}

\* the requests that may fail
FailKeys ==
    {Req(res, 0, 0, off) : res \in {"circuits", "constructors", "drivers"},
                           off \in {0, limit}}
    \cup {Req("seasons", 0, 0, 0)}
    \cup {Req(res, y, 0, off) : res \in {"races", "results", "qualifying", "pitstops"},
                                y \in Years, off \in {0, limit}}
    \cup {Req(res, y, r, 0) : res \in {"constructorStandings", "driverStandings"},
                              y \in Years, r \in 1..MaxRound}

\* the sets of at most n failing requests
RECURSIVE FailurePatterns(_)
FailurePatterns(n) ==
    IF n = 0 THEN {{}}
    ELSE LET fewer == FailurePatterns(n - 1)
         IN fewer \cup {S \cup {k} : S \in fewer, k \in FailKeys}

NoRaw == [n \in RawNames |-> NoFile]

\* a first run on a fresh checkout: no staged or processed file, no table
InitPipeline ==
    /\ pc = "extract_circuits"
    /\ raw = NoRaw
    /\ processed = NoProcessed
    /\ db = NoDb
    /\ args = [start_year |-> 2011, end_year |-> 2012]
    /\ ex = NewLoop(0)
    /\ requested = {}
    /\ log = <<>>
    /\ origin = NoOrigin
    /\ run = 1
    /\ snap = <<>>
    /\ \E s \in Snapshots, f \in FailurePatterns(MaxFailures) :
          /\ f = {} \/ s \in FailingSnapshots
          /\ api = s
          /\ failing = f

\* extract_all on its own, as extract_data.py's main() runs it
SpecExtract == InitPipeline /\ [][NextExtract]_vars

\* run_full_pipeline, twice
SpecPipeline == InitPipeline /\ [][NextPipeline]_vars

-----------------------------------------------------------------------------
(* SpecResolve: transform_all over staged reference tables and dependent   *)
(* tables whose natural keys vary.                                         *)

\* longest staged reference table
MaxRefs == 2
\* longest staged dependent table
MaxRows == 2

DriverRefs == {"max_verstappen", "perez"}
ConstructorRefs == {"red_bull"}

\* drivers.csv: missing, or the refs in some order (repeats included), with
\* the driver_id column extract_drivers inserts or without it
DriverFiles ==
    {NoFile}
    \cup {FileOf({"driver_id", "driver_ref", "driver_number"},
                 [i \in 1..Len(refs) |-> DriverRow(i, refs[i])]) :
             refs \in SeqsOf(DriverRefs, 0, MaxRefs)}
    \cup {FileOf({"driver_ref", "driver_number"},
                 [i \in 1..Len(refs) |->
                    [driver_ref |-> Str(refs[i]), driver_number |-> NaN]]) :
             refs \in SeqsOf(DriverRefs, 1, MaxRefs)}

ConstructorFiles ==
    {NoFile}
    \cup {FileOf({"constructor_id", "constructor_ref"},
                 [i \in 1..Len(refs) |-> ConstructorRow(i, refs[i])]) :
             refs \in SeqsOf(ConstructorRefs, 0, MaxRefs)}
    \cup {FileOf({"constructor_ref"},
                 [i \in 1..Len(refs) |-> [constructor_ref |-> Str(refs[i])]]) :
             refs \in SeqsOf(ConstructorRefs, 1, 1)}

\* the natural keys of one dependent row
DependentKeys ==
    {[driver_ref |-> Str(d), constructor_ref |-> Str("red_bull")] :
        d \in DriverRefs \cup {"unknown_driver"}}
    \cup {[driver_ref |-> Str("max_verstappen"), constructor_ref |-> Str("unknown_team")]}

InitResolve ==
    /\ pc = "transform_circuits"
    /\ processed = NoProcessed
    /\ TransformerOnly
    /\ \E df \in DriverFiles, cf \in ConstructorFiles,
          keys \in SeqsOf(DependentKeys, 1, MaxRows) :
          raw = RawWith(
            [n \in {"drivers", "constructors", "results", "qualifying", "pit_stops",
                    "constructor_standings", "driver_standings"} |->
                CASE n = "drivers" -> df
                  [] n = "constructors" -> cf
                  [] n = "results" ->
                        RowsFile([i \in 1..Len(keys) |->
                            ResultRow(SampleRace, keys[i].driver_ref,
                                      keys[i].constructor_ref,
                                      Num(i), Num(i), Str("Finished"))])
                  [] n = "qualifying" ->
                        RowsFile([i \in 1..Len(keys) |->
                            QualifyingRow(SampleRace, keys[i].driver_ref,
                                          keys[i].constructor_ref)])
                  [] n = "pit_stops" ->
                        RowsFile([i \in 1..Len(keys) |->
                            PitStopRow(SampleRace, keys[i].driver_ref,
                                       Dec(21, 5000), Num(21500))])
                  [] n = "constructor_standings" ->
                        RowsFile([i \in 1..Len(keys) |->
                            ConstructorStandingRow(SampleRace, keys[i].constructor_ref)])
                  [] n = "driver_standings" ->
                        RowsFile([i \in 1..Len(keys) |->
                            DriverStandingRow(SampleRace, keys[i].driver_ref)])])

SpecResolve == InitResolve /\ [][NextTransform]_vars


\* the processed tables that carry resolved foreign keys
DependentClean ==
    {"results_clean", "qualifying_clean", "pit_stops_clean",
     "constructor_standings_clean", "driver_standings_clean"}

\* the surrogate ids of a staged reference table: its id column, or the
\* 1-based row positions when it has none
StagedIds(f, idcol) ==
    IF idcol \in f.cols THEN {f.rows[i][idcol] : i \in 1..Len(f.rows)}
    ELSE {Num(i) : i \in 1..Len(f.rows)}

\* column c of processed table n, in row i, is a staged id of f or 0
ValidOrZero(n, i, c, f) ==
    c \in processed[n].cols =>
        \/ processed[n].rows[i][c] = Num(0)
        \/ processed[n].rows[i][c] \in StagedIds(f, c)

\* C1: in every normalized dependent table, every resolved driver_id and
\* constructor_id is a surrogate id of the staged reference table or exactly 0
\* (an unmatched natural key resolves to 0)
C1_ForeignKeysValidOrZero ==
    \A n \in DependentClean : \A i \in 1..Len(processed[n].rows) :
        /\ ValidOrZero(n, i, "driver_id", raw["drivers"])
        /\ ValidOrZero(n, i, "constructor_id", raw["constructors"])

\* the staged reference table f binds natural key ref (column kc) to some id
\* (column vc), and row i of processed table n carries one of these ids
MatchesReference(n, i, kc, vc, f) ==
    (/\ {kc, vc} \subseteq processed[n].cols
     /\ {kc, vc} \subseteq f.cols
     /\ \E j \in 1..Len(f.rows) : f.rows[j][kc] = processed[n].rows[i][kc])
    => \E j \in 1..Len(f.rows) :
          /\ f.rows[j][kc] = processed[n].rows[i][kc]
          /\ f.rows[j][vc] = processed[n].rows[i][vc]

\* C2: a dependent row whose natural key appears in the staged reference
\* table carries the surrogate id the reference table holds for that key
C2_ResolvedMatchesReference ==
    \A n \in DependentClean : \A i \in 1..Len(processed[n].rows) :
        /\ MatchesReference(n, i, "driver_ref", "driver_id", raw["drivers"])
        /\ MatchesReference(n, i, "constructor_ref", "constructor_id",
                            raw["constructors"])

\* C2 witness: the reference table holds {perez, 2} and {red_bull, 1}, and a
\* normalized result row of perez at red_bull carries driver_id 2 and
\* constructor_id 1
C2_Witness ==
    /\ pc = "transform_done"
    /\ \E j \in 1..Len(raw["drivers"].rows) :
          /\ "driver_id" \in raw["drivers"].cols
          /\ raw["drivers"].rows[j]["driver_ref"] = Str("perez")
          /\ raw["drivers"].rows[j]["driver_id"] = Num(2)
    /\ \E i \in 1..Len(processed["results_clean"].rows) :
          LET row == processed["results_clean"].rows[i] IN
          /\ row["driver_ref"] = Str("perez")
          /\ row["driver_id"] = Num(2)
          /\ row["constructor_ref"] = Str("red_bull")
          /\ row["constructor_id"] = Num(1)


-----------------------------------------------------------------------------
(* SpecResults: transform_all over staged results whose position,          *)
(* position_order and status vary, with and without these columns.         *)

\* longest staged results table
MaxResultRows == 2

PositionCells == {NaN, Num(3), Dec(2, 5000), Str("R")}
PositionOrderCells == {NaN, Num(3), Num(5), Dec(3, 7000), Str("R")}
StatusCells ==
    {Str(x) : x \in DOMAIN status_map} \cup {Str("Gearbox"), Str("finished"), NaN}

SampleResultRow(p, po, st) ==
    ResultRow(SampleRace, Str("max_verstappen"), Str("red_bull"), p, po, st)

\* staged result rows: every position (with a position_order that differs
\* from it), and every position_order
PositionSamples ==
    {SampleResultRow(p, Num(5), Str("Finished")) : p \in PositionCells}
    \cup {SampleResultRow(Num(3), po, Str("Finished")) : po \in PositionOrderCells}

\* staged result rows: every status
StatusSamples == {SampleResultRow(Num(3), Num(3), st) : st \in StatusCells}

ResultTables ==
    SeqsOf(PositionSamples, 1, MaxResultRows) \cup SeqsOf(StatusSamples, 1, MaxResultRows)

\* the columns a staged results table may lack
DroppableResultCols == {"position", "position_order", "status"}

InitResults ==
    /\ pc = "transform_circuits"
    /\ processed = NoProcessed
    /\ TransformerOnly
    /\ \E rows \in ResultTables,
          drop \in SUBSET DroppableResultCols :
          raw = RawWith("results" :>
                    to_csv(Select([cols |-> DOMAIN rows[1], rows |-> rows],
                                  DOMAIN rows[1] \ drop)))

SpecResults == InitResults /\ [][NextTransform]_vars

ResultsIn == raw["results"]
ResultsOut == processed["results_clean"]

\* a cell holds an integer
IsInt(c) == IsNum(c) /\ c.fr = 0


\* the staged position of row i: NaN when the column is absent
StagedPosition(i) ==
    IF "position" \in ResultsIn.cols THEN ResultsIn.rows[i]["position"] ELSE NaN

StagedStatus(i) == ResultsIn.rows[i]["status"]

StatusIds == {1, 2, 3, 4, 5, 11, 12, 13, 14}

\* the mapping as the specification lists it
ListedStatusId(s) ==
    CASE s = "Finished" -> 1 [] s = "Disqualified" -> 2 [] s = "Accident" -> 3
      [] s = "Collision" -> 4 [] s = "Engine" -> 5 [] s = "+1 Lap" -> 11
      [] s = "+2 Laps" -> 12 [] s = "+3 Laps" -> 13 [] s = "Retired" -> 14
      [] OTHER -> 14

\* C5: the status mapping is total and exact: each listed status yields its
\* listed id, every other status value and a missing one yield 14, and the
\* status_id of every normalized result row is in {1,2,3,4,5,11,12,13,14}
C5_StatusMappingTotalExact ==
    \A i \in 1..Len(ResultsOut.rows) :
        LET id == ResultsOut.rows[i]["status_id"] IN
        /\ IsInt(id) /\ id.n \in StatusIds
        /\ "status" \in ResultsIn.cols =>
              id = Num(ListedStatusId(StagedStatus(i).s))

\* C5 witness: normalized results hold a row mapped from '+2 Laps' to 12 and a
\* row whose unlisted status 'Gearbox' went to 14
C5_Witness ==
    /\ pc = "transform_done"
    /\ "status" \in ResultsIn.cols
    /\ \E i, j \in 1..Len(ResultsOut.rows) :
          /\ StagedStatus(i) = Str("+2 Laps")
          /\ ResultsOut.rows[i]["status_id"] = Num(12)
          /\ StagedStatus(j) = Str("Gearbox")
          /\ ResultsOut.rows[j]["status_id"] = Num(14)


-----------------------------------------------------------------------------
(* SpecPitStops: transform_all over staged pit stops whose duration and    *)
(* milliseconds vary, with and without these columns.                      *)

\* longest staged pit-stop table
MaxPitRows == 2

DurationCells == {NaN, Dec(21, 5000), Dec(21, 4567), Str("17:38.564")}
MillisCells == {NaN, Num(21500), Num(777)}

PitStopSamples ==
    {PitStopRow(SampleRace, Str("max_verstappen"), d, ms) :
        d \in DurationCells, ms \in MillisCells}

InitPitStops ==
    /\ pc = "transform_circuits"
    /\ processed = NoProcessed
    /\ TransformerOnly
    /\ \E rows \in SeqsOf(PitStopSamples, 1, MaxPitRows),
          drop \in SUBSET {"duration", "milliseconds"} :
          raw = RawWith("pit_stops" :>
                    to_csv(Select([cols |-> DOMAIN rows[1], rows |-> rows],
                                  DOMAIN rows[1] \ drop)))

SpecPitStops == InitPitStops /\ [][NextTransform]_vars

PitIn == raw["pit_stops"]
PitOut == processed["pit_stops_clean"]

\* duration (seconds) times 1000, rounded to the nearest integer
RoundedMillis(d) == d.n * 1000 + (d.fr * 1000 + FracUnit \div 2) \div FracUnit

\* row i of the staged pit stops carries no milliseconds value of its own
NoStagedMillis(i) ==
    \/ "milliseconds" \notin PitIn.cols
    \/ isna(PitIn.rows[i]["milliseconds"])

\* C6: every pit-stop row with a numeric duration and no supplied
\* milliseconds gets milliseconds = duration * 1000 rounded to the nearest
\* integer, row by row, whatever the other rows of the table carry
C6_MillisDerivedFromDuration ==
    \A i \in 1..Len(PitOut.rows) :
        (/\ "duration" \in PitIn.cols
         /\ IsNum(PitIn.rows[i]["duration"])
         /\ NoStagedMillis(i))
        => PitOut.rows[i]["milliseconds"] = Num(RoundedMillis(PitIn.rows[i]["duration"]))

-----------------------------------------------------------------------------
(* SpecFiles: transform_all over a staging area in which each file is      *)
(* missing, empty (written for zero rows) or holds the sample data.        *)

\* what extract_* writes for zero rows: no header, except for the two tables
\* that get their id column inserted
ZeroRowsFile(n) ==
    CASE n = "drivers" -> FileOf({"driver_id"}, <<>>)
      [] n = "constructors" -> FileOf({"constructor_id"}, <<>>)
      [] OTHER -> EmptyFile

\* the staged files transform_all reads
TransformInputs == RawNames \ {"seasons"}

FileStates == {"missing", "zero_rows", "sample"}

InitFiles ==
    /\ pc = "transform_circuits"
    /\ processed = NoProcessed
    /\ TransformerOnly
    /\ \E st \in [TransformInputs -> FileStates] :
          raw = [n \in RawNames |->
                    IF n \notin TransformInputs \/ st[n] = "sample" THEN SampleRaw[n]
                    ELSE IF st[n] = "missing" THEN NoFile
                    ELSE ZeroRowsFile(n)]

SpecFiles == InitFiles /\ [][NextTransform]_vars

\* the normalized entities, the processed file each one writes and the staged
\* files its normalization reads
Entities ==
    {"circuits", "drivers", "races", "results", "qualifying", "pit_stops",
     "constructor_standings", "driver_standings"}

CleanOf(e) == e \o "_clean"

Reads(e) ==
    CASE e = "circuits" -> {"circuits"}
      [] e = "drivers" -> {"drivers"}
      [] e = "races" -> {"races", "circuits"}
      [] e = "results" -> {"results", "drivers", "constructors"}
      [] e = "qualifying" -> {"qualifying", "drivers", "constructors"}
      [] e = "pit_stops" -> {"pit_stops", "drivers"}
      [] e = "constructor_standings" -> {"constructor_standings", "constructors"}
      [] e = "driver_standings" -> {"driver_standings", "drivers"}

MissingFiles == {n \in TransformInputs : ~raw[n].exists}

\* C10: when staged input files are missing (and every staged file that is
\* there holds data), transform_all does not abort: it runs the normalization
\* of every entity, and the output table of each entity that reads a missing
\* file is empty
C10_MissingInputIsolated ==
    (/\ MissingFiles # {}
     /\ \A n \in TransformInputs \ MissingFiles : raw[n] = SampleRaw[n])
    => /\ pc # "transform_failed"
       /\ pc = "transform_done" =>
            \A e \in Entities :
                Reads(e) \cap MissingFiles # {} => processed[CleanOf(e)].rows = <<>>

-----------------------------------------------------------------------------
(* What extract_all is to stage, stated over the upstream snapshot and the *)
(* failing requests.                                                       *)

\* the offsets at which the request for a page of (res, year) fails
FailingOffsets(res, year) ==
    {k.offset : k \in {q \in failing : q.res = res /\ q.year = year /\ q.round = 0}}

\* the items of a paginated list held by the pages before the first page
\* whose request fails
Kept(list, res, year) ==
    LET ends == {Len(list)} \cup FailingOffsets(res, year)
    IN First(list, CHOOSE m \in ends : \A e \in ends : m <= e)

\* the years an endpoint is asked for
YearsOf(res) ==
    (IF res = "pitstops" THEN Max(2012, args.start_year) ELSE args.start_year)
        .. args.end_year

\* the years of a range in ascending order
YearSeq(years) ==
    [i \in 1..Cardinality(years) |->
        CHOOSE y \in years : Cardinality({z \in years : z < y}) = i - 1]

\* the rows an endpoint's extraction is to end with
ExpectedRows(res) ==
    CASE res \in {"circuits", "constructors", "drivers"} ->
            RowsOf(res, 0, Kept(api[res], res, 0))
      [] res = "seasons" -> RowsOf(res, 0, First(api[res], Min(limit, Len(api[res]))))
      [] res \in {"races", "results", "qualifying", "pitstops"} ->
            LET ys == YearSeq(YearsOf(res))
            IN Flatten([i \in DOMAIN ys |->
                          RowsOf(res, ys[i], Kept(api[res][ys[i]], res, ys[i]))])
      [] OTHER ->
            LET ys == YearSeq(YearsOf(res))
            IN Flatten([i \in DOMAIN ys |->
                 Flatten([r \in 1..MaxRound |->
                    IF Req(res, ys[i], r, 0) \in failing THEN <<>>
                    ELSE RowsOf(res, ys[i], api[res][ys[i]][r])])])

\* the first request of every endpoint, year and round extract_all is to ask
FirstRequests ==
    {Req(res, 0, 0, 0) : res \in {"circuits", "seasons", "constructors", "drivers"}}
    \cup UNION {{Req(res, y, 0, 0) : y \in YearsOf(res)} :
                  res \in {"races", "results", "qualifying", "pitstops"}}
    \cup {Req(res, y, r, 0) : res \in {"constructorStandings", "driverStandings"},
                              y \in YearsOf("constructorStandings"),
                              r \in 1..MaxRound}

\* the snapshot holds a pit stop whose duration is no number
UnparsableDuration ==
    \E y \in YearsOf("pitstops") : \E i \in DOMAIN api["pitstops"][y] :
        \E j \in DOMAIN api["pitstops"][y][i].PitStops :
            BadDuration(api["pitstops"][y][i].PitStops[j].duration)

\* the staged files whose rows carry a race_id
RaceIdFiles ==
    {"races", "results", "qualifying", "pit_stops", "constructor_standings",
     "driver_standings"}

\* C3: every staged race, result, qualifying, pit-stop and standings row that
\* came from year y and an upstream round r < 100 has race_id = y*100 + r, and
\* two such rows with the same race_id came from the same year and round
C3_RaceIdEncodesYearRound ==
    /\ \A f \in RaceIdFiles : \A i \in DOMAIN origin[f] :
          origin[f][i].round < 100 =>
              raw[f].rows[i].race_id = Num(origin[f][i].year * 100 + origin[f][i].round)
    /\ \A f \in RaceIdFiles, g \in RaceIdFiles :
          \A i \in DOMAIN origin[f], j \in DOMAIN origin[g] :
              (/\ origin[f][i].round < 100
               /\ origin[g][j].round < 100
               /\ raw[f].rows[i].race_id = raw[g].rows[j].race_id)
              => origin[f][i] = origin[g][j]

\* a result of round 10 of 2012 is staged with race_id 201210, next to a
\* result of round 100
C3_Witness ==
    /\ \E i \in DOMAIN origin["results"] :
          /\ origin["results"][i] = [year |-> 2012, round |-> 10]
          /\ raw["results"].rows[i].race_id = Num(201210)
    /\ \E i \in DOMAIN origin["results"] : origin["results"][i].round = 100

\* the table f holds exactly the items of list, the k-th with id k
DenseIds(f, id, ref, list) ==
    f.exists =>
        /\ Len(f.rows) = Len(list)
        /\ \A k \in DOMAIN f.rows :
              /\ f.rows[k][id] = Num(k)
              /\ f.rows[k][ref] = Str(list[k])

\* C7: driver_id, constructor_id and circuit_id are 1..N, N the number of
\* extracted rows, and the k-th record the API served, over all pages, has
\* id k
C7_SurrogateKeysDense ==
    /\ DenseIds(raw["drivers"], "driver_id", "driver_ref",
                Kept(api["drivers"], "drivers", 0))
    /\ DenseIds(raw["constructors"], "constructor_id", "constructor_ref",
                Kept(api["constructors"], "constructors", 0))
    /\ processed["circuits_clean"].cols # {} =>
          DenseIds(processed["circuits_clean"], "circuit_id", "circuit_ref",
                   Kept(api["circuits"], "circuits", 0))

\* drivers from two pages are staged, the first of the second page with id
\* limit + 1, and the circuits are normalized
C7_Witness ==
    /\ Len(raw["drivers"].rows) > limit
    /\ raw["drivers"].rows[limit + 1].driver_id = Num(limit + 1)
    /\ processed["circuits_clean"].rows # <<>>
    /\ processed["circuits_clean"].rows[1].circuit_id = Num(1)

\* C8: when the second run of the pipeline has ended, the staged files, the
\* processed files and the tables are those the first run left
C8_SecondRunIdentical ==
    (run = 2 /\ pc \in RunEnded) =>
        /\ raw = snap.raw
        /\ processed = snap.processed
        /\ db = snap.db

\* both runs went through to the end of load_all and loaded rows
C8_Witness ==
    /\ run = 2
    /\ pc = "load_done"
    /\ db["results"].rows # <<>>
    /\ db["drivers"].rows # <<>>
    /\ db["driver_standings"].rows # <<>>

\* C9: a failing request does not make extract_all raise (it raises only for
\* a pit stop whose duration is no number); when extract_all has returned,
\* every endpoint is staged with the rows of the pages before its failing
\* request, year by year (extract_seasons, whose only request failed, has
\* no row and leaves seasons.csv as it was), and the first page of every
\* endpoint, year and round has been requested
C9_TransportFailureNotRaised ==
    /\ pc = "extract_failed" => UnparsableDuration
    /\ pc = "extract_done" =>
          /\ \A res \in Endpoints \ {"seasons"} :
                raw[FileName(res)] = to_csv(Frame(res, Rows(ExpectedRows(res))))
          /\ raw["seasons"] =
                IF Req("seasons", 0, 0, 0) \in failing THEN NoFile
                ELSE to_csv(Frame("seasons", Rows(ExpectedRows("seasons"))))
          /\ FirstRequests \subseteq requested

\* extract_all returned after the request for the second page of the results
\* of 2011 failed: the results of the first page and those of 2012 are staged
C9_Witness ==
    /\ pc = "extract_done"
    /\ Req("results", 2011, 0, limit) \in failing
    /\ Len(api["results"][2011]) > limit
    /\ \E i \in DOMAIN origin["results"] : origin["results"][i].year = 2011
    /\ \E i \in DOMAIN origin["results"] : origin["results"][i].year = 2012

-----------------------------------------------------------------------------
(* SpecLoad: load_all over processed files that hold the sample data or    *)
(* only their header line, into a database that is new or holds the rows   *)
(* of an earlier run.                                                      *)

\* the processed files transform_all writes for the sample data
SampleProcessed ==
    [n \in CleanNames |->
        (transform_circuits(SampleRaw).out @@ transform_drivers(SampleRaw).out
         @@ transform_races(SampleRaw).out @@ transform_results(SampleRaw).out
         @@ transform_qualifying(SampleRaw).out @@ transform_pit_stops(SampleRaw).out
         @@ transform_standings(SampleRaw).out)[n]]

\* a file with the header line of f and no row
HeaderOnly(f) == FileOf(f.cols, <<>>)

\* the file load_all reads for a table
LoadSource(table_name) ==
    IF table_name \in {"seasons", "constructors"} THEN raw[table_name]
    ELSE processed[table_name \o "_clean"]

\* the tables in the order load_all loads them
LoadOrder ==
    <<"seasons", "circuits", "constructors", "drivers", "races", "results",
      "qualifying", "pit_stops", "constructor_standings", "driver_standings">>

\* the table an earlier run left
StaleTable == [exists |-> TRUE, cols |-> {"year"}, rows |-> <<[year |-> Num(1999)]>>]
StaleDb == [t \in RawNames |-> StaleTable]

InitLoad ==
    /\ pc = "load_seasons"
    /\ api = <<>>
    /\ failing = {}
    /\ args = <<>>
    /\ ex = <<>>
    /\ requested = {}
    /\ log = <<>>
    /\ origin = <<>>
    /\ run = 1
    /\ snap = <<>>
    /\ db \in {NoDb, StaleDb}
    /\ \E zero \in SUBSET RawNames :
          /\ raw = [n \in RawNames |->
                       IF n \in zero THEN HeaderOnly(SampleRaw[n]) ELSE SampleRaw[n]]
          /\ processed = [n \in CleanNames |->
                       IF \E t \in zero : n = t \o "_clean"
                       THEN HeaderOnly(SampleProcessed[n]) ELSE SampleProcessed[n]]

\* load_all on its own, as load_data.py's main() runs it
SpecLoad == InitLoad /\ [][NextLoad]_vars

\* the load_* call of load_all that pc stands at (0 when load_all has not
\* started, past the last one when it is over)
LoadPosition ==
    CASE pc = "load_seasons" -> 1
      [] pc = "load_circuits" -> 2
      [] pc = "load_constructors" -> 3
      [] pc = "load_drivers" -> 4
      [] pc = "load_races" -> 5
      [] pc = "load_results" -> 6
      [] pc = "load_qualifying" -> 7
      [] pc = "load_pit_stops" -> 8
      [] pc = "load_standings" -> 9
      [] pc = "load_done" -> 11
      [] OTHER -> 0

\* C11: once load_all has loaded a table, the table holds exactly the rows
\* read for it in this run and none of its earlier rows, also when no row was
\* read for it
C11_LoadReplacesTable ==
    \A i \in DOMAIN LoadOrder :
        i < LoadPosition =>
            db[LoadOrder[i]].rows =
                Prepared(LoadOrder[i], read_csv(LoadSource(LoadOrder[i])).df).rows

-----------------------------------------------------------------------------
(* References staged without a surrogate key (C12)                         *)

\* the id the encounter-order rule gives natural key `key` in reference table
\* f: the 1-based position of its row (the last one, should the key repeat)
EncounterId(f, kc, key) ==
    LET hits == {j \in 1..Len(f.rows) : f.rows[j][kc] = key}
    IN Num(CHOOSE j \in hits : \A k \in hits : k <= j)

\* reference table f has natural-key column kc but no surrogate column vc, and
\* row i of processed table n, whose key f lists, carries the encounter-order id
ResolvedOnTheFly(n, i, kc, vc, f) ==
    (/\ f.exists /\ kc \in f.cols /\ vc \notin f.cols
     /\ kc \in processed[n].cols
     /\ \E j \in 1..Len(f.rows) : f.rows[j][kc] = processed[n].rows[i][kc])
    => /\ vc \in processed[n].cols
       /\ processed[n].rows[i][vc] = EncounterId(f, kc, processed[n].rows[i][kc])

\* C12: when a staged reference table (drivers, constructors, circuits) has no
\* surrogate-key column, every dependent row with a matching natural key
\* carries the non-zero id 1..N that row order gives the reference row
C12_ResolvedOnTheFly ==
    /\ \A n \in DependentClean : \A i \in 1..Len(processed[n].rows) :
          /\ ResolvedOnTheFly(n, i, "driver_ref", "driver_id", raw["drivers"])
          /\ ResolvedOnTheFly(n, i, "constructor_ref", "constructor_id",
                              raw["constructors"])
    /\ \A i \in 1..Len(processed["races_clean"].rows) :
          ResolvedOnTheFly("races_clean", i, "circuit_ref", "circuit_id",
                           raw["circuits"])

-----------------------------------------------------------------------------
(* SpecPaging: extract_all, no request failing, against upstreams that     *)
(* count records and upstreams that hold more records than one page.       *)

PagingSnapshots ==
    {[BaseSnapshot EXCEPT !.paging = pg, ![res] = First(ids, n)] :
        pg \in {"objects", "records"}, n \in 0..MaxItems,
        <<res, ids>> \in {<<"circuits", CircuitIds>>, <<"constructors", ConstructorIds>>,
                          <<"drivers", DriverIds>>}}
    \cup {[BaseSnapshot EXCEPT !.paging = pg,
                               !.seasons = [i \in 1..n |-> IntToStr(2009 + i)]] :
            pg \in {"objects", "records"}, n \in 0..MaxItems}
    \cup {[BaseSnapshot EXCEPT !.paging = pg, !.results = WithYear(@, y, ResultsOf(n))] :
            pg \in {"objects", "records"}, y \in Years, n \in 0..MaxItems}
    \cup {[BaseSnapshot EXCEPT !.paging = pg,
                               !.qualifying = WithYear(@, y, QualifyingOf(n))] :
            pg \in {"objects", "records"}, y \in Years, n \in 0..MaxItems}
    \cup {[BaseSnapshot EXCEPT !.paging = pg,
                               !.pitstops = WithYear(@, y, PitStopsOf(n, Dec(21, 5000)))] :
            pg \in {"objects", "records"}, y \in Years, n \in 0..MaxItems}

InitPaging ==
    /\ pc = "extract_circuits"
    /\ raw = NoRaw
    /\ processed = NoProcessed
    /\ db = NoDb
    /\ args = [start_year |-> 2011, end_year |-> 2012]
    /\ ex = NewLoop(0)
    /\ requested = {}
    /\ log = <<>>
    /\ origin = NoOrigin
    /\ run = 1
    /\ snap = <<>>
    /\ failing = {}
    /\ api \in PagingSnapshots

SpecPaging == InitPaging /\ [][NextExtract]_vars

\* the rows of every upstream record of an endpoint, in upstream order
AllRecords(res) ==
    IF res \in {"circuits", "seasons", "constructors", "drivers"}
    THEN RowsOf(res, 0, api[res])
    ELSE LET ys == YearSeq(YearsOf(res))
         IN Flatten([i \in DOMAIN ys |-> RowsOf(res, ys[i], api[res][ys[i]])])

\* C13: with no failing request and an upstream that applies limit/offset to
\* the individual records, extract_all ends with every upstream record of
\* each flat resource (circuits, seasons, constructors, drivers) and of each
\* grouped resource (results, qualifying, pit stops) staged exactly once
C13_EveryRecordStagedOnce ==
    (pc = "extract_done" /\ failing = {} /\ api.paging = "records")
    => \A res \in {"circuits", "seasons", "constructors", "drivers",
                   "results", "qualifying", "pitstops"} :
          raw[FileName(res)].rows = to_csv(Frame(res, Rows(AllRecords(res)))).rows

-----------------------------------------------------------------------------
(* Zero-row outcomes (C14)                                                 *)

\* the staged files that extract_all wrote with no row
ZeroRowFiles == {n \in RawNames : raw[n].exists /\ raw[n].rows = <<>>}

\* C14: when the extraction staged zero rows for some entity (qualifying,
\* pit stops, standings, ...), neither transform_all nor load_all aborts
C14_ZeroRowsNeverAbort ==
    ZeroRowFiles # {} => pc \notin {"transform_failed", "load_failed"}

-----------------------------------------------------------------------------
(* Reference entities before dependent entities (C15)                      *)

ReferenceSteps ==
    {"extract_circuits", "extract_seasons", "extract_constructors", "extract_drivers"}

DependentEndpoints ==
    {"races", "results", "qualifying", "pitstops", "constructorStandings",
     "driverStandings"}

\* C15: once a request for a dependent entity (races, results, qualifying,
\* pit stops, standings) has been issued, the calls that extract the four
\* reference entities have all returned: each was requested, circuits,
\* constructors and drivers are staged with the rows their extraction ends
\* with, and seasons is staged unless its one request failed
C15_ReferencesBeforeDependents ==
    (\E q \in requested : q.res \in DependentEndpoints)
    => /\ pc \notin ReferenceSteps
       /\ \A res \in {"circuits", "seasons", "constructors", "drivers"} :
             Req(res, 0, 0, 0) \in requested
       /\ \A res \in {"circuits", "constructors", "drivers"} :
             /\ raw[FileName(res)].exists
             /\ raw[FileName(res)].rows
                   = to_csv(Frame(res, Rows(ExpectedRows(res)))).rows
       /\ raw["seasons"].exists \/ Req("seasons", 0, 0, 0) \in failing

\* C15 witness: the first races request has been issued in a run in which a
\* request for a reference entity failed
C15_Witness ==
    /\ Req("races", 2011, 0, 0) \in requested
    /\ \E q \in failing : q.res \in {"circuits", "seasons", "constructors", "drivers"}
    /\ raw["drivers"].exists

-----------------------------------------------------------------------------
(* SpecEnvelope: extract_all, no request failing, against responses whose  *)
(* table container is renamed, missing, or holds no list.                  *)

\* the shapes of the response of an endpoint; the standings endpoints may
\* also serve StandingsLists as a single object or as null
Shapes(res) ==
    {"served", "renamed", "empty_first", "no_mrdata", "no_table", "no_list"}
    \cup (IF res \in {"constructorStandings", "driverStandings"}
          THEN {"single_object", "null_list"} ELSE {})

EnvelopeSnapshots ==
    UNION {{[BaseSnapshot EXCEPT !.envelope[res] = shape] : shape \in Shapes(res)} :
             res \in Endpoints}

InitEnvelope ==
    /\ pc = "extract_circuits"
    /\ raw = NoRaw
    /\ processed = NoProcessed
    /\ db = NoDb
    /\ args = [start_year |-> 2011, end_year |-> 2012]
    /\ ex = NewLoop(0)
    /\ requested = {}
    /\ log = <<>>
    /\ origin = NoOrigin
    /\ run = 1
    /\ snap = <<>>
    /\ failing = {}
    /\ api \in EnvelopeSnapshots

SpecEnvelope == InitEnvelope /\ [][NextExtract]_vars

\* the container of a response that _extract_table is to read: the one asked
\* for, else the first whose key ends in 'Table', else none (<<>>)
ContainerOf(json, table_name) ==
    IF ~json.hasMRData THEN <<>>
    ELSE IF KeyedAt(json.MRData, table_name) # {}
    THEN json.MRData[FirstOf(KeyedAt(json.MRData, table_name))].value
    ELSE IF TablesAt(json.MRData) # {}
    THEN json.MRData[FirstOf(TablesAt(json.MRData))].value
    ELSE <<>>

\* the response of an endpoint holds no list that _extract_table could return
NoListServed(res) ==
    ListsAt(ContainerOf(Response(res, <<"item">>), TableName(res))) = {}

\* C16: a response without the expected container key is read from the first
\* MRData key ending in 'Table'; a response with no MRData, no such key, or
\* a container holding no list gives an empty page ([] or a value the
\* caller's `if not` takes for it), extract_all does not raise for it, and
\* the resource ends with no row
C16_MalformedPayloadIsEmptyPage ==
    /\ \A res \in Endpoints :
          LET json == Response(res, <<"item">>)
              page == extract_table([ok |-> TRUE, json |-> json], TableName(res))
              container == ContainerOf(json, TableName(res))
          IN /\ ListsAt(container) # {}
                  => page = container[FirstOf(ListsAt(container))].value
             /\ NoListServed(res) => ~page.truthy /\ page.items = <<>>
    /\ (\E res \in Endpoints : NoListServed(res)) => pc # "extract_failed"
    /\ pc = "extract_done" =>
          \A res \in Endpoints : NoListServed(res) => raw[FileName(res)].rows = <<>>

-----------------------------------------------------------------------------
(* Malformed upstream fields (C17)                                         *)

\* C17: a pit-stop record whose duration is no plain decimal number (such as
\* '17:38.564') does not abort the extraction: with no failing request,
\* extract_all does not raise, and it ends with the rows of every other
\* record of every endpoint staged
C17_MalformedFieldDoesNotAbort ==
    (failing = {} /\ UnparsableDuration)
    => /\ pc # "extract_failed"
       /\ pc = "extract_done" =>
             \A res \in Endpoints \ {"pitstops"} :
                raw[FileName(res)] = to_csv(Frame(res, Rows(ExpectedRows(res))))

-----------------------------------------------------------------------------
(* SpecNumeric: transform_all over staged results whose nullable numeric   *)
(* fields vary, with and without their columns.                            *)

\* the nullable numeric fields of a result
NullableNumeric == {"grid", "laps", "fastest_lap", "fastest_lap_rank", "number"}

NumericCells == {NaN, Num(0), Num(7), Str("PIT")}

\* staged result rows that differ from the sample row in one numeric field
NumericSamples ==
    {[SampleResultRow(Num(3), Num(3), Str("Finished")) EXCEPT ![c] = v] :
        c \in NullableNumeric, v \in NumericCells}

InitNumeric ==
    /\ pc = "transform_circuits"
    /\ processed = NoProcessed
    /\ TransformerOnly
    /\ \E rows \in SeqsOf(NumericSamples, 1, MaxResultRows),
          drop \in {{}} \cup {{c} : c \in NullableNumeric} :
          raw = RawWith("results" :>
                    to_csv(Select([cols |-> DOMAIN rows[1], rows |-> rows],
                                  DOMAIN rows[1] \ drop)))

SpecNumeric == InitNumeric /\ [][NextTransform]_vars

\* the staged value of field c in row i: NaN when the column is absent
StagedNumeric(i, c) ==
    IF c \in ResultsIn.cols THEN ResultsIn.rows[i][c] ELSE NaN

\* C19: transform_all normalizes every staged results table, and in the
\* normalized table each of grid, laps, fastest_lap, fastest_lap_rank and
\* number is, in every row, a non-null integer: 0 where the staged value is
\* absent or non-numeric, the staged value otherwise
C19_NumericFieldsDefaultZero ==
    /\ pc # "transform_failed"
    /\ ResultsOut.exists =>
          \A i \in 1..Len(ResultsOut.rows) : \A c \in NullableNumeric :
             /\ c \in ResultsOut.cols
             /\ ResultsOut.rows[i][c] =
                   IF IsNum(StagedNumeric(i, c)) THEN StagedNumeric(i, c) ELSE Num(0)

-----------------------------------------------------------------------------
(* Cosmetic nullable fields at the sink (C20)                              *)

\* the cosmetic nullable fields, by table
CosmeticFields ==
    {<<"circuits", "altitude">>, <<"drivers", "driver_number">>,
     <<"races", "race_time">>, <<"pit_stops", "time_of_day">>,
     <<"qualifying", "q1">>, <<"qualifying", "q2">>, <<"qualifying", "q3">>}

\* no row of table t holds a missing marker in column c
NeverMissing(t, c) ==
    (db[t].exists /\ c \in db[t].cols)
    => \A i \in 1..Len(db[t].rows) : ~isna(db[t].rows[i][c])

\* C20: in the tables _load_table was handed, no row holds a missing marker
\* in circuit altitude, driver number, race_time, pit-stop time_of_day or
\* qualifying q1/q2/q3
C20_NoMissingMarkerAtSink ==
    \A f \in CosmeticFields : NeverMissing(f[1], f[2])

-----------------------------------------------------------------------------
(* SpecRerun: extract_all and then transform_all over the files an earlier *)
(* run left behind.                                                        *)

\* the files of an earlier run: no run of the model writes a file with a row
\* twice, so a file of the earlier run is told from any file of this run
Stale(f) == [f EXCEPT !.rows = @ \o @]
StaleRaw == [n \in RawNames |-> Stale(SampleRaw[n])]
StaleProcessed == [n \in CleanNames |-> Stale(SampleProcessed[n])]

RerunSnapshots ==
    {BaseSnapshot, EmptySnapshot,
     [BaseSnapshot EXCEPT !.qualifying = WithYear(@, 2011, <<>>)]}
    \cup {[BaseSnapshot EXCEPT !.constructorStandings = StandingsOf(shape, "red_bull"),
                               !.driverStandings = StandingsOf(shape, "max_verstappen")] :
            shape \in {"none", "flat"}}

InitRerun ==
    /\ pc = "extract_circuits"
    /\ raw = StaleRaw
    /\ processed = StaleProcessed
    /\ db = NoDb
    /\ args = [start_year |-> 2011, end_year |-> 2012]
    /\ ex = NewLoop(0)
    /\ requested = {}
    /\ log = <<>>
    /\ origin = NoOrigin
    /\ run = 1
    /\ snap = <<>>
    /\ api \in RerunSnapshots
    /\ failing \in {{}, {Req("seasons", 0, 0, 0)}, {Req("drivers", 0, 0, 0)}}

NextRerun ==
    \/ NextExtract
    \/ RunTransformer
    \/ NextTransform

SpecRerun == InitRerun /\ [][NextRerun]_vars

\* C18: when extract_all and transform_all have both completed, no staged raw
\* file and no processed file is still the file of the earlier run, also when
\* a request failed or an entity has zero rows; and no step of transform_all
\* changes a staged raw file
C18_RunReplacesStagedData ==
    /\ [](pc = "transform_done" =>
            /\ \A n \in RawNames : raw[n] # StaleRaw[n]
            /\ \A n \in CleanNames : processed[n] # StaleProcessed[n])
    /\ [][(\E i \in DOMAIN TransformSteps : pc = TransformSteps[i]) => (raw' = raw)]_vars

-----------------------------------------------------------------------------
(* The order of the requests (C21)                                         *)

\* the endpoints that are read page by page
Paginated ==
    {"circuits", "constructors", "drivers", "races", "results", "qualifying",
     "pitstops"}

\* the requests sent so far for the pages of an endpoint (and year), in the
\* order they were sent
PagesAsked(res, year) ==
    SelectSeq(log, LAMBDA e : e.req.res = res /\ e.req.year = year)

\* C21: for each paginated resource (and year), the k-th request asks offset
\* (k-1)*limit, so the offsets are 0, L, 2L, ... in increasing order and none
\* is asked twice; every request but the last succeeded and returned exactly
\* limit items, and once extract_all has returned the last request of the
\* resource (and year) did not: a further page is asked if and only if the
\* page before it was a full one
C21_PagesInOrderUntilShort ==
    \A res \in Paginated : \A year \in {0} \cup Years :
        LET asked == PagesAsked(res, year) IN
        /\ \A k \in DOMAIN asked : asked[k].req.offset = (k - 1) * limit
        /\ \A k \in DOMAIN asked :
              k < Len(asked) => asked[k].ok /\ asked[k].len = limit
        /\ (pc = "extract_done" /\ asked # <<>>) =>
              ~(asked[Len(asked)].ok /\ asked[Len(asked)].len = limit)

\* C21 witness: extract_all returned in a run in which one resource was read
\* over two pages (a full one, then a short or empty one) and the
\* request for the second page of another failed
C21_Witness ==
    /\ pc = "extract_done"
    /\ \E res \in Paginated, year \in {0} \cup Years :
          /\ Len(PagesAsked(res, year)) = 2
          /\ ~PagesAsked(res, year)[2].ok
    /\ \E res \in Paginated, year \in {0} \cup Years :
          /\ Len(PagesAsked(res, year)) = 2
          /\ PagesAsked(res, year)[2].ok
          /\ PagesAsked(res, year)[2].len < limit

-----------------------------------------------------------------------------
(* Termination of the extraction (C22)                                     *)

\* the resource the extract_* method at a position of extract_all asks for
ResourceAt(step) ==
    CASE step = "extract_circuits" -> "circuits"
      [] step = "extract_seasons" -> "seasons"
      [] step = "extract_constructors" -> "constructors"
      [] step = "extract_drivers" -> "drivers"
      [] step = "extract_races" -> "races"
      [] step = "extract_results" -> "results"
      [] step = "extract_qualifying" -> "qualifying"
      [] step = "extract_pit_stops" -> "pitstops"
      [] step = "extract_constructor_standings" -> "constructorStandings"
      [] step = "extract_driver_standings" -> "driverStandings"

\* where extract_all ends: it returned, or it raised
ExtractEnded == {"extract_done", "extract_failed"}

\* the call of _make_request that extract_all makes next comes back
Answered ==
    IF pc = "extract_seasons" THEN make_request("seasons", 0, 0, limit, 0).returns
    ELSE IF pc \in {"extract_constructor_standings", "extract_driver_standings"}
    THEN make_request(ResourceAt(pc), ex.year, ex.round, 1000, 0).returns
    ELSE make_request(ResourceAt(pc), ex.year, 0, limit, ex.offset).returns

\* extract_all can take a step: it has not ended and is not held in a call
\* that never comes back (the enabling condition of NextExtract)
ExtractRuns == pc \notin ExtractEnded /\ Answered

\* extract_all runs on, a call that can take its next step takes it: weak
\* fairness of NextExtract, written with its enabling condition
SpecExtractFair ==
    /\ InitPipeline
    /\ [][NextExtract]_vars
    /\ ([]<>(~ExtractRuns) \/ []<><<NextExtract>>_vars)

\* C22: with any of the failure patterns and any of the (finite) upstream
\* snapshots, extract_all eventually returns or raises, so only finitely
\* many requests are sent
C22_ExtractionTerminates == <>(pc \in ExtractEnded)

\* C22 witness: extract_all returned after a request failed and after a
\* resource was read over more than one page
C22_Witness ==
    /\ pc = "extract_done"
    /\ \E k \in DOMAIN log : ~log[k].ok
    /\ \E k \in DOMAIN log : log[k].req.offset > 0

-----------------------------------------------------------------------------
(* Standings rows (C23)                                                     *)

StandingsEndpoints == {"constructorStandings", "driverStandings"}

\* the column of a standings file that holds the natural key
StandingRef(res) ==
    IF res = "constructorStandings" THEN "constructor_ref" ELSE "driver_ref"

\* the rows of a staged standings file for one race and one natural key
StagedStandings(res, race_id, ref) ==
    LET f == raw[FileName(res)] IN
    {i \in 1..Len(f.rows) :
        /\ {"race_id", StandingRef(res)} \subseteq f.cols
        /\ f.rows[i]["race_id"] = Num(race_id)
        /\ f.rows[i][StandingRef(res)] = Str(ref)}

-----------------------------------------------------------------------------
(* The rounds probed for the standings (C24)                                *)

StandingsSteps == {"extract_constructor_standings", "extract_driver_standings"}

\* the requests sent for the standings of one kind and one year, in order
Probes(res, year) ==
    SelectSeq(log, LAMBDA e : e.req.res = res /\ e.req.year = year)

\* the rows of a staged file that came from one year and round
RowsFrom(res, year, round_num) ==
    {i \in DOMAIN origin[FileName(res)] :
        /\ origin[FileName(res)][i].year = year
        /\ origin[FileName(res)][i].round = round_num}

\* C24: when extract_all returned, the standings requests of each kind and
\* each year of the range are those for the rounds 1..MaxRound (the model's
\* 24), once each, and none for another year; the round of a failed or empty
\* answer has no row in the staged file; and a pass of the loop whose answer
\* failed or was empty does not raise
C24_EveryRoundProbedOnce ==
    /\ [](pc = "extract_done" =>
            /\ \A k \in DOMAIN log :
                  log[k].req.res \in StandingsEndpoints
                      => log[k].req.year \in YearsOf(log[k].req.res)
            /\ \A res \in StandingsEndpoints : \A y \in YearsOf(res) :
                  LET probes == Probes(res, y) IN
                  /\ Len(probes) = MaxRound
                  /\ \A k \in DOMAIN probes :
                        /\ probes[k].req.round = k
                        /\ (~probes[k].ok \/ probes[k].len = 0)
                              => RowsFrom(res, y, k) = {})
    /\ [][(/\ pc \in StandingsSteps
           /\ Len(log') = Len(log) + 1
           /\ (~log'[Len(log')].ok \/ log'[Len(log')].len = 0))
          => pc' # "extract_failed"]_vars

\* C24 witness: extract_all returned after the request for round 1 of a
\* year failed and the request for round 2 of that year brought rows
C24_Witness ==
    /\ pc = "extract_done"
    /\ \E res \in StandingsEndpoints : \E y \in YearsOf(res) :
          /\ Len(Probes(res, y)) = MaxRound
          /\ ~Probes(res, y)[1].ok
          /\ Probes(res, y)[2].ok
          /\ RowsFrom(res, y, 2) # {}

-----------------------------------------------------------------------------
(* The delay between requests (C25)                                         *)

\* C25: every request that was followed by another one was followed by a
\* rate-limit delay first, whether it succeeded or failed
C25_DelayBetweenRequests ==
    \A k \in DOMAIN log : k < Len(log) => log[k].slept

-----------------------------------------------------------------------------
(* SpecStaged: transform_all and then load_all over a staged data set whose *)
(* circuits file comes with or without an id column of its own (C26).       *)

CircuitRefs == {"bahrain", "monza"}

\* the first id of a staged circuit_id column
StagedIdBases == {1, 11}

\* circuits.csv as extract_circuits stages it (no id column), or with a
\* circuit_id column that counts from some base; no key is repeated
CircuitFiles ==
    LET orders == {refs \in SeqsOf(CircuitRefs, 1, MaxRefs) :
                      \A i, j \in DOMAIN refs : refs[i] = refs[j] => i = j}
    IN {RowsFile([i \in DOMAIN refs |-> CircuitRow(refs[i])]) : refs \in orders}
       \cup {RowsFile([i \in DOMAIN refs |->
                         [circuit_id |-> Num(base + i - 1), circuit_ref |-> Str(refs[i]),
                          altitude |-> NaN]]) :
                refs \in orders, base \in StagedIdBases}

InitStaged ==
    /\ pc = "transform_circuits"
    /\ processed = NoProcessed
    /\ db = NoDb
    /\ api = <<>>
    /\ failing = {}
    /\ args = <<>>
    /\ ex = <<>>
    /\ requested = {}
    /\ log = <<>>
    /\ origin = <<>>
    /\ run = 1
    /\ snap = <<>>
    /\ \E cf \in CircuitFiles, ref \in CircuitRefs :
          raw = RawWith([n \in {"circuits", "races"} |->
                           IF n = "circuits" THEN cf
                           ELSE RowsFile(<<RaceRow(2024, 1, ref)>>)])

NextStaged == NextTransform \/ RunLoader \/ NextLoad

SpecStaged == InitStaged /\ [][NextStaged]_vars

\* table t of the database holds a row that binds natural key ref (column
\* kc) to surrogate id id (column vc)
LoadedBinds(t, kc, vc, ref, id) ==
    /\ {kc, vc} \subseteq db[t].cols
    /\ \E j \in 1..Len(db[t].rows) :
          db[t].rows[j][kc] = ref /\ db[t].rows[j][vc] = id

\* every row of file f with a non-zero id in column vc has, in table t of
\* the database, the reference row with its natural key and that id
PointsAtLoaded(f, t, kc, vc) ==
    {kc, vc} \subseteq f.cols =>
        \A i \in 1..Len(f.rows) :
            f.rows[i][vc] # Num(0)
                => LoadedBinds(t, kc, vc, f.rows[i][kc], f.rows[i][vc])

-----------------------------------------------------------------------------
(* SpecRaceIds: transform_all over a races file without a race_id column,   *)
(* next to dependent rows that carry the race_id the extractor computed     *)
(* for the first staged race (C27).                                         *)

RoundSamples == {0, 1, 9, 10, 24, 99, 100}

\* a staged race without its race_id
RaceRowNoId(year, round_num) ==
    [year |-> Num(year), round |-> Num(round_num),
     circuit_ref |-> Str("bahrain"), race_time |-> Str("15:00:00")]

\* the years and rounds of the staged races
RaceKeys == SeqsOf(Years \X RoundSamples, 1, MaxRows)

InitRaceIds ==
    /\ pc = "transform_circuits"
    /\ processed = NoProcessed
    /\ TransformerOnly
    /\ \E keys \in RaceKeys :
          LET race_id == MakeRaceId(keys[1][1], keys[1][2]) IN
          raw = RawWith(
            [n \in {"races", "results", "qualifying", "pit_stops",
                    "constructor_standings", "driver_standings"} |->
                CASE n = "races" ->
                        RowsFile([i \in DOMAIN keys |->
                                    RaceRowNoId(keys[i][1], keys[i][2])])
                  [] n = "results" ->
                        RowsFile(<<ResultRow(race_id, Str("max_verstappen"),
                                             Str("red_bull"), Num(1), Num(1),
                                             Str("Finished"))>>)
                  [] n = "qualifying" ->
                        RowsFile(<<QualifyingRow(race_id, Str("max_verstappen"),
                                                 Str("red_bull"))>>)
                  [] n = "pit_stops" ->
                        RowsFile(<<PitStopRow(race_id, Str("max_verstappen"),
                                              Dec(21, 5000), Num(21500))>>)
                  [] n = "constructor_standings" ->
                        RowsFile(<<ConstructorStandingRow(race_id, Str("red_bull"))>>)
                  [] n = "driver_standings" ->
                        RowsFile(<<DriverStandingRow(race_id, Str("max_verstappen"))>>)])

SpecRaceIds == InitRaceIds /\ [][NextTransform]_vars

\* the normalized race rows a race_id joins to
JoinedRaces(race_id) ==
    {j \in 1..Len(processed["races_clean"].rows) :
        processed["races_clean"].rows[j]["race_id"] = race_id}

\* the normalized race rows of a year and round
RacesAt(year, round_num) ==
    {j \in 1..Len(processed["races_clean"].rows) :
        /\ processed["races_clean"].rows[j]["year"] = year
        /\ processed["races_clean"].rows[j]["round"] = round_num}

\* C27: the race_id the fallback of transform_races gives a race is the one
\* the extractor computes for its year and round, for every round >= 0
\* (rounds of three digits included), and the rows of every normalized
\* dependent table join to the races of their year and round and to no other
C27_RaceIdAgrees ==
    processed["races_clean"].exists =>
        LET races == processed["races_clean"].rows IN
        /\ \A j \in 1..Len(races) :
              races[j]["race_id"] = Num(MakeRaceId(races[j]["year"].n, races[j]["round"].n))
        /\ \A n \in DependentClean : \A i \in 1..Len(processed[n].rows) :
              /\ JoinedRaces(processed[n].rows[i]["race_id"])
                    = RacesAt(races[1]["year"], races[1]["round"])
              /\ 1 \in JoinedRaces(processed[n].rows[i]["race_id"])

\* C27 witness: transform_all is over, a race of round 1 and a race of round
\* 100 got their race_id from the fallback, and a normalized result row
\* joins the first of them
C27_Witness ==
    /\ pc = "transform_done"
    /\ Len(processed["races_clean"].rows) = 2
    /\ processed["races_clean"].rows[1]["round"] = Num(1)
    /\ processed["races_clean"].rows[1]["race_id"] = Num(201101)
    /\ processed["races_clean"].rows[2]["round"] = Num(100)
    /\ processed["races_clean"].rows[2]["race_id"] = Num(2012100)
    /\ \E i \in 1..Len(processed["results_clean"].rows) :
          processed["results_clean"].rows[i]["race_id"] = Num(201101)

-----------------------------------------------------------------------------
(* SpecPoints: transform_all over staged results whose points vary (C28).   *)

\* points as float(result.get('points', 0)) stages them: 25, 0, 0.5, 12.5
PointsSamples == {Num(25), Num(0), Dec(0, 5000), Dec(12, 5000)}

InitPoints ==
    /\ pc = "transform_circuits"
    /\ processed = NoProcessed
    /\ TransformerOnly
    /\ \E points \in SeqsOf(PointsSamples, 1, MaxRows) :
          raw = RawWith(
            [n \in {"results"} |->
                RowsFile([i \in DOMAIN points |->
                    [ResultRow(SampleRace, Str("max_verstappen"), Str("red_bull"),
                               Num(1), Num(1), Str("Finished"))
                        EXCEPT !.points = points[i]]])])

SpecPoints == InitPoints /\ [][NextTransform]_vars

\* C28: the points of every normalized result row are the points staged for
\* that row, fractional points included
C28_PointsUnchanged ==
    processed["results_clean"].exists =>
        \A i \in 1..Len(processed["results_clean"].rows) :
            processed["results_clean"].rows[i]["points"] = raw["results"].rows[i]["points"]

-----------------------------------------------------------------------------
(* SpecRepeats: extract_all and transform_all over an upstream whose pages  *)
(* may repeat a record of a reference list (C29).                           *)

\* reference lists with and without a repeated record
RepeatedLists(ids) ==
    {<<ids[1], ids[2]>>, <<ids[1], ids[1]>>, <<ids[1], ids[2], ids[1]>>,
     <<ids[2], ids[1], ids[1]>>}

RepeatSnapshots ==
    {[BaseSnapshot EXCEPT !.circuits = list] : list \in RepeatedLists(CircuitIds)}
    \cup {[BaseSnapshot EXCEPT !.constructors = list] :
            list \in RepeatedLists(ConstructorIds)}
    \cup {[BaseSnapshot EXCEPT !.drivers = list] : list \in RepeatedLists(DriverIds)}

InitRepeats ==
    /\ pc = "extract_circuits"
    /\ raw = NoRaw
    /\ processed = NoProcessed
    /\ db = NoDb
    /\ args = [start_year |-> 2011, end_year |-> 2012]
    /\ ex = NewLoop(0)
    /\ requested = {}
    /\ log = <<>>
    /\ origin = NoOrigin
    /\ run = 1
    /\ snap = <<>>
    /\ api \in RepeatSnapshots
    /\ failing = {}

SpecRepeats == InitRepeats /\ [][NextRerun]_vars

\* file f binds every natural key (column kc) to one surrogate id (column vc)
OneIdPerKey(f, kc, vc) ==
    {kc, vc} \subseteq f.cols =>
        \A i, j \in 1..Len(f.rows) :
            f.rows[i][kc] = f.rows[j][kc] => f.rows[i][vc] = f.rows[j][vc]

\* every row of the normalized table n carries, for its natural key, the id
\* of every row of reference file f with that key
AgreesWithReference(n, f, kc, vc) ==
    {kc, vc} \subseteq (processed[n].cols \cap f.cols) =>
        \A i \in 1..Len(processed[n].rows) : \A j \in 1..Len(f.rows) :
            f.rows[j][kc] = processed[n].rows[i][kc]
                => f.rows[j][vc] = processed[n].rows[i][vc]

\* C29: when transform_all is over, every reference table of the run binds
\* each natural key to one surrogate id, also when the upstream repeated a
\* record, and the ids resolved into the dependent tables are the ids of the
\* reference tables
C29_OneIdPerNaturalKey ==
    pc = "transform_done" =>
        /\ OneIdPerKey(raw["drivers"], "driver_ref", "driver_id")
        /\ OneIdPerKey(processed["drivers_clean"], "driver_ref", "driver_id")
        /\ OneIdPerKey(raw["constructors"], "constructor_ref", "constructor_id")
        /\ OneIdPerKey(processed["circuits_clean"], "circuit_ref", "circuit_id")
        /\ AgreesWithReference("races_clean", processed["circuits_clean"],
                               "circuit_ref", "circuit_id")
        /\ \A n \in DependentClean :
              /\ AgreesWithReference(n, processed["drivers_clean"],
                                     "driver_ref", "driver_id")
              /\ AgreesWithReference(n, raw["constructors"],
                                     "constructor_ref", "constructor_id")

-----------------------------------------------------------------------------
(* The stages of run_full_pipeline (C30)                                    *)

\* the positions of extract_all
ExtractSteps ==
    {"extract_circuits", "extract_seasons", "extract_constructors", "extract_drivers",
     "extract_races", "extract_results", "extract_qualifying", "extract_pit_stops",
     "extract_constructor_standings", "extract_driver_standings"}

\* the positions of run_full_pipeline from the return of extract_all to the
\* end of transform_all
TransformStage ==
    {TransformSteps[i] : i \in DOMAIN TransformSteps}
    \cup {"extract_done", "transform_done", "transform_failed"}

\* C30: in the first invocation of run_full_pipeline (no skip flag, the
\* database empty before it) no normalized file and no table is written
\* until extract_all has returned, and none after it raised; no table is
\* written until transform_all has returned, and none after it raised; and
\* an invocation whose load_all raised has written nothing to the database
C30_StagesInOrderNoPartialLoad ==
    run = 1 =>
        /\ pc \in ExtractSteps \cup {"extract_failed"}
              => processed = NoProcessed /\ db = NoDb
        /\ pc \in TransformStage => db = NoDb
        /\ pc = "load_failed" => db = NoDb

=============================================================================
